---- MODULE Spec2Model ----
(***************************************************************************)
(* NaviSync: matching and reconciliation of Last.fm scrobbles against a    *)
(* Navidrome library.  Strings are sequences of one-character strings, so  *)
(* that strip(), lower() and the separator split act on them as in Python. *)
(***************************************************************************)
EXTENDS Integers, Sequences, FiniteSets, TLC

VARIABLES
    scrobbles,              \* cache table `scrobbles`, oldest row first
    loved_tracks,           \* cache table `loved_tracks`
    fuzzy_match_mappings,   \* cache table: navidrome_track_id -> <<lastfm_artist, lastfm_track>>
    skipped_tracks,         \* cache table: navidrome_track_id -> checked_lastfm_tracks
    ALBUM_MATCHING_MODE,    \* configuration of the current run
    ENABLE_FUZZY_MATCHING,  \* configuration of the current run
    aggregated_scrobbles,   \* the aggregated map of the current run
    pc,                     \* position of main(): "idle", "matching", "done"
    track_i,                    \* compute_differences Phase 1: index of the next track
    track_matches,          \* Phase 1 result of the current run: track id -> key or None
    prompts,                \* fuzzy prompts issued in the current run
    prev,                   \* inputs and Phase 1 result of the previous complete run
    runs,                   \* number of runs started
    last,                   \* log of the last get_lastfm_match_for_navidrome_track call
    dv,                     \* album-aware divide: its input and its result
    dp,                     \* compute_differences Phase 2 for one Last.fm identity
    wb,                     \* one selected version: its difference and its write-back
    rp,                     \* resolve_playcount: its arguments and its result
    fn,                     \* one application of a pure function: arguments and result
    ba                      \* apply_updates over a batch, statement by statement

vars == <<scrobbles, loved_tracks, fuzzy_match_mappings, skipped_tracks, ALBUM_MATCHING_MODE,
          ENABLE_FUZZY_MATCHING, aggregated_scrobbles, pc, track_i, track_matches,
          prompts, prev, runs, last, dv, dp, wb, rp, fn, ba>>

matchVars == <<fuzzy_match_mappings, skipped_tracks, ENABLE_FUZZY_MATCHING, pc, track_i,
               track_matches, prompts, prev, runs, last>>

syncVars == <<scrobbles, loved_tracks, ALBUM_MATCHING_MODE, aggregated_scrobbles, matchVars>>

-----------------------------------------------------------------------------
(* Bounds *)

MaxScrobbles == 3
MaxRuns == 2
MaxTotal == 7
MaxDup == 3
MaxCount == 3

-----------------------------------------------------------------------------
(* Strings *)

None == <<>>

s_ab == <<"a", "b">>
s_Ab == <<"A", "b">>
s_abc == <<"a", "b", "c">>
s_ab_amp_c == <<"a", "b", " ", "&", " ", "c">>
s_x == <<"x">>
s_X_sp == <<"X", " ">>
s_y == <<"y">>

LowerChar(c) ==
    CASE c = "A" -> "a"
      [] c = "B" -> "b"
      [] c = "E" -> "e"
      [] c = "F" -> "f"
      [] c = "T" -> "t"
      [] c = "X" -> "x"
      [] c = "N" -> "n"
      [] c = "L" -> "l"
      [] OTHER -> c

lower(s) == [i \in 1..Len(s) |-> LowerChar(s[i])]

RECURSIVE lstrip(_)
lstrip(s) == IF s # <<>> /\ Head(s) = " " THEN lstrip(Tail(s)) ELSE s

RECURSIVE rstrip(_)
rstrip(s) ==
    IF s # <<>> /\ s[Len(s)] = " " THEN rstrip(SubSeq(s, 1, Len(s) - 1)) ELSE s

strip(s) == rstrip(lstrip(s))

normalize(s) == IF s # <<>> THEN lower(strip(s)) ELSE <<>>

SCROBBLED_FIRSTARTISTONLY == TRUE

s_A_amp_B == <<"A", " ", "&", " ", "B">>

\* FIRST_ARTIST_WHITELIST=["A & B"]
FIRST_ARTIST_WHITELIST == { s_A_amp_B }

\* the alternatives of sep_pattern, in lower case; between \s+ and \s+ every \b holds
Separators ==
    { <<"f", "e", "a", "t">>, <<"f", "e", "a", "t", ".">>, <<"f", "t">>, <<"f", "t", ".">>,
      <<"f", "e", "a", "t", "u", "r", "i", "n", "g">>, <<"&">>, <<"+">>, <<";">>, <<",">>,
      <<"/">>, <<"-">>, <<"v", "s">>, <<"v", "s", ".">>, <<"a", "n", "d">>,
      <<"w", "i", "t", "h">>, <<"m", "i", "t">>, <<"m", "e", "t">>, <<"x">>,
      <<"r", "e", "m", "i", "x">>, <<"v", "e", "r", "s", "u", "s">> }

\* separator t stands at position j of s (re.IGNORECASE)
IsSep(s, j, t) ==
    /\ j + Len(t) - 1 <= Len(s)
    /\ lower(SubSeq(s, j, j + Len(t) - 1)) = t

\* positions i where a run of blanks starts that is followed by a separator and a blank
SepStarts(s) ==
    { i \in 1..Len(s) :
        /\ s[i] = " "
        /\ (i = 1 \/ s[i - 1] # " ")
        /\ \E j \in (i + 1)..(Len(s) - 1), t \in Separators :
              /\ \A k \in i..(j - 1) : s[k] = " "
              /\ IsSep(s, j, t)
              /\ j + Len(t) <= Len(s)
              /\ s[j + Len(t)] = " " }

Min(S) == CHOOSE m \in S : \A n \in S : m <= n

first_artist(artist) ==
    IF artist = <<>> THEN <<>>
    ELSE LET artist_clean == strip(artist)
             wl == { w \in FIRST_ARTIST_WHITELIST :
                        strip(w) # <<>> /\ lower(strip(w)) = lower(artist_clean) }
         IN  IF ~SCROBBLED_FIRSTARTISTONLY THEN artist_clean
             ELSE IF wl # {} THEN strip(CHOOSE w \in wl : TRUE)
             ELSE IF SepStarts(artist_clean) = {} THEN artist_clean
             ELSE strip(SubSeq(artist_clean, 1, Min(SepStarts(artist_clean)) - 1))

make_key_lastfm_first(artist, title, album, album_aware) ==
    IF album_aware
    THEN <<normalize(first_artist(artist)), normalize(title), normalize(album)>>
    ELSE <<normalize(first_artist(artist)), normalize(title)>>

make_key_lastfm(artist, title, album, album_aware) ==
    IF album_aware
    THEN <<normalize(artist), normalize(title), normalize(album)>>
    ELSE <<normalize(artist), normalize(title)>>

make_key_navidrome(artist, title, album, album_aware) ==
    IF album_aware
    THEN <<normalize(first_artist(artist)), normalize(title), normalize(album)>>
    ELSE <<normalize(first_artist(artist)), normalize(title)>>

-----------------------------------------------------------------------------
(* Scrobble cache and aggregation *)

Range(f) == { f[i] : i \in DOMAIN f }

get_latest_scrobble_timestamp(tbl) ==
    IF tbl = <<>> THEN 0
    ELSE CHOOSE m \in { r.timestamp : r \in Range(tbl) } :
            \A r \in Range(tbl) : r.timestamp <= m

\* INSERT of one row; a row violating UNIQUE(artist, track, timestamp) is dropped
add_scrobbles(tbl, s) ==
    IF \E r \in Range(tbl) :
            r.artist = s.artist /\ r.track = s.track /\ r.timestamp = s.timestamp
    THEN tbl
    ELSE Append(tbl, [artist |-> s.artist, album |-> s.album, track |-> s.track,
                      timestamp |-> s.timestamp, loved |-> s.loved, synced |-> FALSE])

update_loved_tracks_resets(tbl, loved_tracks_list) ==
    [i \in DOMAIN tbl |->
        [tbl[i] EXCEPT !.loved =
            \E j \in DOMAIN loved_tracks_list :
                /\ loved_tracks_list[j].artist = tbl[i].artist
                /\ loved_tracks_list[j].track = tbl[i].track]]

\* table scrobbles after update_loved_tracks: UPDATE ... SET loved = 1 WHERE artist, track
update_loved_tracks(tbl, loved_tracks_list) ==
    [i \in DOMAIN tbl |->
        IF \E j \in DOMAIN loved_tracks_list :
                /\ loved_tracks_list[j].artist = tbl[i].artist
                /\ loved_tracks_list[j].track = tbl[i].track
        THEN [tbl[i] EXCEPT !.loved = TRUE]
        ELSE tbl[i]]

\* UPDATE scrobbles SET synced = 1 WHERE artist = ? AND track = ?
mark_scrobbles_synced(tbl, artist, track) ==
    [i \in DOMAIN tbl |->
        IF tbl[i].artist = artist /\ tbl[i].track = track
        THEN [tbl[i] EXCEPT !.synced = TRUE]
        ELSE tbl[i]]

\* UPDATE scrobbles SET synced = 0
reset_sync_status(tbl) == [i \in DOMAIN tbl |-> [tbl[i] EXCEPT !.synced = FALSE]]

\* SELECT ... ORDER BY timestamp DESC
get_all_scrobbles(tbl) ==
    [i \in 1..Len(tbl) |->
        CHOOSE r \in Range(tbl) :
            Cardinality({ j \in DOMAIN tbl : tbl[j].timestamp > r.timestamp }) = i - 1]

\* the rows of list l whose key is k, in list order
RECURSIVE RowsOf(_, _, _)
RowsOf(l, k, album_aware) ==
    IF l = <<>> THEN <<>>
    ELSE LET s == Head(l)
             rest == RowsOf(Tail(l), k, album_aware)
         IN  IF make_key_lastfm(s.artist, s.track, s.album, album_aware) = k
             THEN <<s>> \o rest
             ELSE rest

aggregate_scrobbles_keeps_one(l, album_aware) ==
    LET keys == { make_key_lastfm(l[i].artist, l[i].track, l[i].album, album_aware) :
                    i \in DOMAIN l }
    IN  [k \in keys |->
            LET rows == RowsOf(l, k, album_aware)
            IN  [timestamps |-> <<rows[1].timestamp>>,
                 loved |-> \E i \in 1..Len(rows) : rows[i].loved,
                 artist_orig |-> rows[1].artist,
                 track_orig |-> rows[1].track,
                 album_orig |-> rows[1].album]]

aggregate_scrobbles_last_loved(l, album_aware) ==
    LET keys == { make_key_lastfm(l[i].artist, l[i].track, l[i].album, album_aware) :
                    i \in DOMAIN l }
    IN  [k \in keys |->
            LET rows == RowsOf(l, k, album_aware)
            IN  [timestamps |-> [i \in 1..Len(rows) |-> rows[i].timestamp],
                 loved |-> rows[Len(rows)].loved,
                 artist_orig |-> rows[1].artist,
                 track_orig |-> rows[1].track,
                 album_orig |-> rows[1].album]]

aggregate_scrobbles(l, album_aware) ==
    LET keys == { make_key_lastfm(l[i].artist, l[i].track, l[i].album, album_aware) :
                    i \in DOMAIN l }
    IN  [k \in keys |->
            LET rows == RowsOf(l, k, album_aware)
            IN  [timestamps |-> [i \in 1..Len(rows) |-> rows[i].timestamp],
                 loved |-> \E i \in 1..Len(rows) : rows[i].loved,
                 artist_orig |-> rows[1].artist,
                 track_orig |-> rows[1].track,
                 album_orig |-> rows[1].album]]

\* dict iteration order: keys in order of first insertion
RECURSIVE KeyOrder(_, _)
KeyOrder(l, album_aware) ==
    IF l = <<>> THEN <<>>
    ELSE LET before == KeyOrder(SubSeq(l, 1, Len(l) - 1), album_aware)
             s == l[Len(l)]
             k == make_key_lastfm(s.artist, s.track, s.album, album_aware)
         IN  IF k \in Range(before) THEN before ELSE Append(before, k)

-----------------------------------------------------------------------------
(* Fuzzy matcher *)

\* text.replace(' & ', ' and '): leftmost, non-overlapping
RECURSIVE ReplaceAmp(_)
ReplaceAmp(s) ==
    IF Len(s) < 3 THEN s
    ELSE IF s[1] = " " /\ s[2] = "&" /\ s[3] = " "
         THEN <<" ", "a", "n", "d", " ">> \o ReplaceAmp(SubSeq(s, 4, Len(s)))
         ELSE <<s[1]>> \o ReplaceAmp(Tail(s))

\* text.replace('  ', ' '): leftmost, non-overlapping, one pass
RECURSIVE ReplaceDoubleSpace(_)
ReplaceDoubleSpace(s) ==
    IF Len(s) < 2 THEN s
    ELSE IF s[1] = " " /\ s[2] = " "
         THEN <<" ">> \o ReplaceDoubleSpace(SubSeq(s, 3, Len(s)))
         ELSE <<s[1]>> \o ReplaceDoubleSpace(Tail(s))

\* the alphabet holds no combining marks, so the NFD step drops nothing
normalize_for_fuzzy_match(text) ==
    IF text = <<>> THEN <<>>
    ELSE strip(ReplaceDoubleSpace(ReplaceAmp(lower(text))))

Max2(a, b) == IF a >= b THEN a ELSE b

RECURSIVE LCS(_, _)
LCS(a, b) ==
    IF a = <<>> \/ b = <<>> THEN 0
    ELSE IF Head(a) = Head(b) THEN 1 + LCS(Tail(a), Tail(b))
    ELSE Max2(LCS(Tail(a), b), LCS(a, Tail(b)))

\* round() of n/d, halves to even
RoundDiv(n, d) ==
    LET q == n \div d
        r == n % d
    IN  IF 2 * r > d THEN q + 1
        ELSE IF 2 * r = d THEN q + (q % 2)
        ELSE q

\* fuzz.ratio: 100 * 2 * matches / (len(a) + len(b)), rounded
fuzz_ratio(a, b) ==
    IF Len(a) + Len(b) = 0 THEN 100
    ELSE RoundDiv(200 * LCS(a, b), Len(a) + Len(b))

FUZZY_THRESHOLD == 85

ARTIST_FLOOR == 70

Passes_no_floor(combined10, artist_score, threshold) == combined10 >= 10 * threshold

\* combined_score is kept as ten times its value: track * 7 + artist * 3.  Over the scores
\* 0..100 the double track * 0.7 + artist * 0.3 is below 85 while the exact value is not
\* for track 97, artist 57 only, which the artist floor rejects; the doubles of two
\* different exact values are ordered as these are.
Passes(combined10, artist_score, threshold) ==
    combined10 >= 10 * threshold /\ artist_score >= ARTIST_FLOOR

MatchOf(navidrome_artist, navidrome_track, key, scrobble_info) ==
    LET artist_score == fuzz_ratio(normalize_for_fuzzy_match(navidrome_artist),
                                   normalize_for_fuzzy_match(scrobble_info.artist_orig))
        track_score == fuzz_ratio(normalize_for_fuzzy_match(navidrome_track),
                                  normalize_for_fuzzy_match(scrobble_info.track_orig))
    IN  [lastfm_artist |-> scrobble_info.artist_orig,
         lastfm_track |-> scrobble_info.track_orig,
         artist_score |-> artist_score,
         track_score |-> track_score,
         combined_score |-> 7 * track_score + 3 * artist_score,
         key |-> key]

\* list.sort(key=combined_score, reverse=True): stable insertion from the right
RECURSIVE SortMatches(_)
Insert(m, l) ==
    LET later == { i \in 1..Len(l) : l[i].combined_score < m.combined_score }
        p == IF later = {} THEN Len(l) + 1 ELSE Min(later)
    IN  SubSeq(l, 1, p - 1) \o <<m>> \o SubSeq(l, p, Len(l))
SortMatches(l) ==
    IF l = <<>> THEN <<>>
    ELSE Insert(l[Len(l)], SortMatches(SubSeq(l, 1, Len(l) - 1)))

RECURSIVE Collect(_, _, _, _, _)
Collect(order, navidrome_artist, navidrome_track, agg, threshold) ==
    IF order = <<>> THEN <<>>
    ELSE LET m == MatchOf(navidrome_artist, navidrome_track, Head(order), agg[Head(order)])
             rest == Collect(Tail(order), navidrome_artist, navidrome_track, agg, threshold)
         IN  IF Passes(m.combined_score, m.artist_score, threshold)
             THEN <<m>> \o rest
             ELSE rest

find_fuzzy_matches_for_navidrome_track(navidrome_artist, navidrome_track, agg, order, threshold) ==
    SortMatches(Collect(order, navidrome_artist, navidrome_track, agg, threshold))

-----------------------------------------------------------------------------
(* Decision cache *)

\* `found` is false where the code returns None
get_fuzzy_match_for_navidrome_track(fm, navidrome_track_id) ==
    IF navidrome_track_id \in DOMAIN fm
    THEN [found |-> TRUE, artist |-> fm[navidrome_track_id][1],
          track |-> fm[navidrome_track_id][2]]
    ELSE [found |-> FALSE, artist |-> <<>>, track |-> <<>>]

get_skipped_track_info(sk, navidrome_track_id) ==
    IF navidrome_track_id \in DOMAIN sk
    THEN [found |-> TRUE, checked_lastfm_tracks |-> sk[navidrome_track_id]]
    ELSE [found |-> FALSE, checked_lastfm_tracks |-> <<>>]

\* INSERT OR REPLACE of the row of id into table tbl
Upsert(tbl, id, row) ==
    [i \in DOMAIN tbl \cup {id} |-> IF i = id THEN row ELSE tbl[i]]

\* DELETE of the row of id from table tbl
Delete(tbl, id) == [i \in DOMAIN tbl \ {id} |-> tbl[i]]

save_fuzzy_match_keeps_skip(fm, sk, navidrome_track, lastfm_artist, lastfm_track) ==
    [fm |-> Upsert(fm, navidrome_track.id, <<lastfm_artist, lastfm_track>>),
     sk |-> sk]

save_fuzzy_match_no_insert(fm, sk, navidrome_track, lastfm_artist, lastfm_track) ==
    [fm |-> fm, sk |-> Delete(sk, navidrome_track.id)]

\* the two tables after save_fuzzy_match
save_fuzzy_match(fm, sk, navidrome_track, lastfm_artist, lastfm_track) ==
    [fm |-> Upsert(fm, navidrome_track.id, <<lastfm_artist, lastfm_track>>),
     sk |-> Delete(sk, navidrome_track.id)]

save_skipped_track_first_only(sk, navidrome_track, checked_lastfm_tracks) ==
    Upsert(sk, navidrome_track.id, <<checked_lastfm_tracks[1]>>)

\* checked_lastfm_tracks is stored as a JSON list of pairs
save_skipped_track(sk, navidrome_track, checked_lastfm_tracks) ==
    Upsert(sk, navidrome_track.id, checked_lastfm_tracks)

-----------------------------------------------------------------------------
(* Match resolver *)

NoKeys == [given |-> FALSE, keys |-> {}]

CachedKey(cached_match) ==
    make_key_lastfm(cached_match.artist, cached_match.track, None, FALSE)

CacheHit(cached_match, agg) ==
    cached_match.found /\ CachedKey(cached_match) \in DOMAIN agg

ExactHit_never(exact_key, agg) == FALSE

ExactHit(exact_key, agg) == exact_key \in DOMAIN agg

\* the key returned by the album-aware branch, or None
AlbumAwareFallback(navidrome_track, agg, album_specific_keys) ==
    LET nav_key_agnostic ==
            make_key_navidrome(navidrome_track.artist, navidrome_track.title, None, FALSE)
        has_album_specific ==
            /\ album_specific_keys.given
            /\ <<nav_key_agnostic[1], nav_key_agnostic[2]>> \in album_specific_keys.keys
        empty_album_key ==
            make_key_navidrome(navidrome_track.artist, navidrome_track.title, <<>>, TRUE)
        nav_album_clean == strip(navidrome_track.album)
        album_agnostic_key ==
            make_key_navidrome(navidrome_track.artist, navidrome_track.title, None, FALSE)
    IN  IF nav_album_clean = <<>> /\ empty_album_key \in DOMAIN agg THEN empty_album_key
        ELSE IF ~has_album_specific /\ empty_album_key \in DOMAIN agg THEN empty_album_key
        ELSE IF ~has_album_specific /\ album_agnostic_key \in DOMAIN agg THEN album_agnostic_key
        ELSE None

LastfmKeys(matches) ==
    [i \in 1..Len(matches) |-> <<matches[i].lastfm_artist, matches[i].lastfm_track>>]

new_matches_reversed(current_lastfm_keys, previously_checked) ==
    Range(previously_checked) \ Range(current_lastfm_keys)

new_matches(current_lastfm_keys, previously_checked) ==
    Range(current_lastfm_keys) \ Range(previously_checked)

KeepSkipped_never(skipped_info, fuzzy_matches) == FALSE

\* skipped before, and nothing new among the current candidates
KeepSkipped(skipped_info, fuzzy_matches) ==
    /\ skipped_info.found
    /\ new_matches(LastfmKeys(fuzzy_matches), skipped_info.checked_lastfm_tracks) = {}

Outcome(result, fm, sk, fuzzy_invoked, prompted, fuzzy_matches) ==
    [result |-> result, fm |-> fm, sk |-> sk, fuzzy_invoked |-> fuzzy_invoked,
     prompted |-> prompted, fuzzy_matches |-> fuzzy_matches]

\* prompt_user_for_lastfm_match answered by `choice`, and what follows it
Decide(navidrome_track, fuzzy_matches, fm, sk, choice) ==
    IF choice # 0
    THEN LET selected == fuzzy_matches[choice]
             saved == save_fuzzy_match(fm, sk, navidrome_track,
                                       selected.lastfm_artist, selected.lastfm_track)
         IN  Outcome(selected.key, saved.fm, saved.sk, TRUE, TRUE, fuzzy_matches)
    ELSE Outcome(None, fm,
                 save_skipped_track(sk, navidrome_track, LastfmKeys(fuzzy_matches)),
                 TRUE, TRUE, fuzzy_matches)

get_lastfm_match_for_navidrome_track_falls_through(navidrome_track, agg, order, fm, sk, fuzzy_threshold, enable_fuzzy, album_aware, album_specific_keys, choice) ==
    LET cached_match == get_fuzzy_match_for_navidrome_track(fm, navidrome_track.id)
        exact_key == make_key_navidrome(navidrome_track.artist, navidrome_track.title,
                                        navidrome_track.album, album_aware)
        fuzzy_matches ==
            find_fuzzy_matches_for_navidrome_track(navidrome_track.artist,
                navidrome_track.title, agg, order, fuzzy_threshold)
        skipped_info == get_skipped_track_info(sk, navidrome_track.id)
    IN  IF CacheHit(cached_match, agg)
            THEN Outcome(CachedKey(cached_match), fm, sk, FALSE, FALSE, <<>>)
        ELSE IF ExactHit(exact_key, agg)
            THEN Outcome(exact_key, fm, sk, FALSE, FALSE, <<>>)
        ELSE IF album_aware
                /\ AlbumAwareFallback(navidrome_track, agg, album_specific_keys) # None
            THEN Outcome(AlbumAwareFallback(navidrome_track, agg, album_specific_keys),
                         fm, sk, FALSE, FALSE, <<>>)
        ELSE IF ~enable_fuzzy
            THEN Outcome(None, fm, sk, FALSE, FALSE, <<>>)
        ELSE IF fuzzy_matches = <<>>
            THEN Outcome(None, fm, sk, TRUE, FALSE, <<>>)
        ELSE IF KeepSkipped(skipped_info, fuzzy_matches)
            THEN Outcome(None, fm, sk, TRUE, FALSE, fuzzy_matches)
        ELSE Decide(navidrome_track, fuzzy_matches, fm, sk, choice)

get_lastfm_match_for_navidrome_track(navidrome_track, agg, order, fm, sk, fuzzy_threshold, enable_fuzzy, album_aware, album_specific_keys, choice) ==
    LET cached_match == get_fuzzy_match_for_navidrome_track(fm, navidrome_track.id)
        exact_key == make_key_navidrome(navidrome_track.artist, navidrome_track.title,
                                        navidrome_track.album, album_aware)
        fuzzy_matches ==
            find_fuzzy_matches_for_navidrome_track(navidrome_track.artist,
                navidrome_track.title, agg, order, fuzzy_threshold)
        skipped_info == get_skipped_track_info(sk, navidrome_track.id)
    IN  IF CacheHit(cached_match, agg)
            THEN Outcome(CachedKey(cached_match), fm, sk, FALSE, FALSE, <<>>)
        ELSE IF ExactHit(exact_key, agg)
            THEN Outcome(exact_key, fm, sk, FALSE, FALSE, <<>>)
        ELSE IF album_aware
            THEN Outcome(AlbumAwareFallback(navidrome_track, agg, album_specific_keys),
                         fm, sk, FALSE, FALSE, <<>>)
        ELSE IF ~enable_fuzzy
            THEN Outcome(None, fm, sk, FALSE, FALSE, <<>>)
        ELSE IF fuzzy_matches = <<>>
            THEN Outcome(None, fm, sk, TRUE, FALSE, <<>>)
        ELSE IF KeepSkipped(skipped_info, fuzzy_matches)
            THEN Outcome(None, fm, sk, TRUE, FALSE, fuzzy_matches)
        ELSE Decide(navidrome_track, fuzzy_matches, fm, sk, choice)

-----------------------------------------------------------------------------
(* Inputs: the library and the scrobbles Last.fm can deliver *)

Track(id, artist, title, album) ==
    [id |-> id, artist |-> artist, title |-> title, album |-> album]

\* get_all_tracks: the library, in the order the store returns it
Tracks ==
    << Track(1, s_ab, s_ab, s_y),
       Track(2, s_ab_amp_c, s_abc, <<>>) >>

TrackIds == { Tracks[i].id : i \in DOMAIN Tracks }

Scrobble(artist, track, album, loved) ==
    [artist |-> artist, track |-> track, album |-> album, loved |-> loved]

ScrobblePool ==
    { Scrobble(s_ab, s_abc, <<>>, FALSE),
      Scrobble(s_Ab, s_abc, <<>>, TRUE),
      Scrobble(s_abc, s_ab, <<>>, FALSE),
      Scrobble(s_ab, s_ab, <<>>, FALSE),
      Scrobble(s_ab, s_ab, s_x, FALSE) }

AlbumModes == {"album_agnostic", "album_aware", "prompt"}

-----------------------------------------------------------------------------
(* main(): fetch, aggregate, then compute_differences Phase 1 *)

NoCall ==
    [id |-> 0, album_aware |-> FALSE, enable_fuzzy |-> FALSE, fuzzy_invoked |-> FALSE,
     prompted |-> FALSE, fuzzy_matches |-> <<>>, choice |-> 0, result |-> None,
     fm_before |-> <<>>, sk_before |-> <<>>]

NoPrev ==
    [valid |-> FALSE, aggregated_scrobbles |-> <<>>, enable_fuzzy |-> FALSE,
     track_matches |-> <<>>]

NoDivide ==
    [duplicates |-> <<>>, total |-> 0, album_orig |-> <<>>, distribution |-> <<>>,
     processed |-> <<>>, called |-> FALSE]

\* the state after ScrobbleCache(...) on an empty cache file, before any fetch
InitCache ==
    /\ scrobbles = <<>>
    /\ loved_tracks = <<>>
    /\ fuzzy_match_mappings = <<>>
    /\ skipped_tracks = <<>>
    /\ ENABLE_FUZZY_MATCHING = TRUE
    /\ aggregated_scrobbles = <<>>
    /\ pc = "idle"
    /\ track_i = 1
    /\ track_matches = [i \in TrackIds |-> None]
    /\ prompts = 0
    /\ prev = NoPrev
    /\ runs = 0
    /\ last = NoCall

InitSync == InitCache /\ ALBUM_MATCHING_MODE = "album_agnostic"

NoDup == [handled |-> FALSE, runs |-> 0]

NoWrite == [pc |-> "none"]

NoResolve == [called |-> FALSE]

NoApply == [called |-> FALSE]

NoBatch == [pc |-> "none"]

\* the variables of the pure-function and batch specifications, where they are not used
Unused == fn = NoApply /\ ba = NoBatch

Init ==
    InitSync /\ dv = NoDivide /\ dp = NoDup /\ wb = NoWrite /\ rp = NoResolve /\ Unused

\* fetch_and_update_cache: the new scrobbles are newer than every cached one
Fetched(tbl, new) ==
    IF new = <<>> THEN tbl
    ELSE add_scrobbles(tbl, [artist |-> new[1].artist, track |-> new[1].track,
                             album |-> new[1].album, loved |-> new[1].loved,
                             timestamp |-> get_latest_scrobble_timestamp(tbl) + 1])

\* table scrobbles when fetch_and_update_cache returns
fetch_and_update_cache(tbl, new, loved_tracks_list) ==
    update_loved_tracks(Fetched(tbl, new), loved_tracks_list)

\* what user.getLovedTracks may return
LovedLists == { <<>>, <<[artist |-> s_ab, track |-> s_abc]>> }

\* main(): fetch_and_update_cache, then aggregate_scrobbles, under the album mode
FetchAndAggregate(mode, new, loved_tracks_list) ==
    /\ scrobbles' = fetch_and_update_cache(scrobbles, new, loved_tracks_list)
    /\ loved_tracks' = loved_tracks_list
    /\ ALBUM_MATCHING_MODE' = mode
    /\ aggregated_scrobbles' =
            aggregate_scrobbles(get_all_scrobbles(scrobbles'), mode = "album_aware")

\* main() up to the start of compute_differences, under the configuration (mode, fuzzy)
StartRun(mode, fuzzy, new, loved_tracks_list) ==
    /\ pc \in {"idle", "done"}
    /\ runs < MaxRuns
    /\ Len(scrobbles) + Len(new) <= MaxScrobbles
    /\ Len(scrobbles) + Len(new) > 0
    /\ FetchAndAggregate(mode, new, loved_tracks_list)
    /\ ENABLE_FUZZY_MATCHING' = fuzzy
    /\ pc' = "matching"
    /\ track_i' = 1
    /\ track_matches' = [i \in TrackIds |-> None]
    /\ prompts' = 0
    /\ prev' = IF pc = "done"
               THEN [valid |-> TRUE, aggregated_scrobbles |-> aggregated_scrobbles,
                     enable_fuzzy |-> ENABLE_FUZZY_MATCHING,
                     track_matches |-> track_matches]
               ELSE prev
    /\ runs' = runs + 1
    /\ last' = NoCall
    /\ UNCHANGED <<fuzzy_match_mappings, skipped_tracks, dv, dp, wb, rp, fn, ba>>

\* one iteration of the Phase 1 loop: the resolver call for tracks[track_i]
MatchTrack(choice) ==
    /\ pc = "matching"
    /\ track_i <= Len(Tracks)
    /\ LET nav_track == Tracks[track_i]
           album_aware == (ALBUM_MATCHING_MODE = "album_aware")
           order == KeyOrder(get_all_scrobbles(scrobbles), album_aware)
           Call(c) == get_lastfm_match_for_navidrome_track(nav_track,
                    aggregated_scrobbles, order, fuzzy_match_mappings, skipped_tracks,
                    FUZZY_THRESHOLD, ENABLE_FUZZY_MATCHING, album_aware, NoKeys, c)
           r == Call(choice)
       IN  \* the prompt returns an answer in 0..len(matches); no prompt, no answer
           /\ choice = 0 \/ (Call(0).prompted /\ choice <= Len(Call(0).fuzzy_matches))
           /\ fuzzy_match_mappings' = r.fm
           /\ skipped_tracks' = r.sk
           /\ track_matches' = [track_matches EXCEPT ![nav_track.id] = r.result]
           /\ prompts' = IF r.prompted THEN prompts + 1 ELSE prompts
           /\ last' = [id |-> nav_track.id, album_aware |-> album_aware,
                       enable_fuzzy |-> ENABLE_FUZZY_MATCHING,
                       fuzzy_invoked |-> r.fuzzy_invoked, prompted |-> r.prompted,
                       fuzzy_matches |-> r.fuzzy_matches, choice |-> choice,
                       result |-> r.result, fm_before |-> fuzzy_match_mappings,
                       sk_before |-> skipped_tracks]
    /\ track_i' = track_i + 1
    /\ pc' = IF track_i = Len(Tracks) THEN "done" ELSE "matching"
    /\ UNCHANGED <<scrobbles, loved_tracks, ALBUM_MATCHING_MODE, ENABLE_FUZZY_MATCHING,
                   aggregated_scrobbles, prev, runs, dv, dp, wb, rp, fn, ba>>

MaxChoice == MaxScrobbles

Next ==
    \/ \E mode \in AlbumModes, fuzzy \in BOOLEAN :
          \E new \in {<<>>} \cup { <<s>> : s \in ScrobblePool }, loved \in LovedLists :
              StartRun(mode, fuzzy, new, loved)
    \/ \E choice \in 0..MaxChoice : MatchTrack(choice)

Spec == Init /\ [][Next]_vars

-----------------------------------------------------------------------------
(* Duplicate handler: album-aware divide *)

EqualShare_no_remainder(total, n, idx) == total \div n

EqualShare_remainder_last(total, n, idx) ==
    (total \div n) + (IF idx >= n - (total % n) THEN 1 ELSE 0)

\* count of the version at 0-based position idx when total is divided over n versions
EqualShare(total, n, idx) ==
    LET per_version == total \div n
        remainder == total % n
    IN  per_version + (IF idx < remainder THEN 1 ELSE 0)

EqualDivide(duplicates, total) ==
    [id \in { duplicates[i].id : i \in DOMAIN duplicates } |->
        LET i == CHOOSE j \in DOMAIN duplicates :
                    /\ duplicates[j].id = id
                    /\ \A k \in DOMAIN duplicates : duplicates[k].id = id => k <= j
        IN  EqualShare(total, Len(duplicates), i - 1)]

AlbumMatches_untrimmed(duplicates, lastfm_album) ==
    { i \in DOMAIN duplicates : lower(duplicates[i].album) = lower(lastfm_album) }

\* positions of the versions whose album is the Last.fm album, case-insensitively
AlbumMatches(duplicates, lastfm_album) ==
    { i \in DOMAIN duplicates : lower(strip(duplicates[i].album)) = lower(lastfm_album) }

\* all scrobbles to the version exact_match, none to the others
AllToOne(duplicates, exact_match, total) ==
    [id \in { duplicates[i].id : i \in DOMAIN duplicates } |->
        IF id = exact_match.id THEN total ELSE 0]

calculate_album_divide(duplicates, scrobble_info) ==
    LET total_scrobbles == Len(scrobble_info.timestamps)
        lastfm_album == strip(scrobble_info.album_orig)
    IN  IF lastfm_album = <<>> THEN EqualDivide(duplicates, total_scrobbles)
        ELSE IF AlbumMatches(duplicates, lastfm_album) # {}
             THEN AllToOne(duplicates,
                           duplicates[Min(AlbumMatches(duplicates, lastfm_album))],
                           total_scrobbles)
             ELSE EqualDivide(duplicates, total_scrobbles)

\* the interactive variant computes the same distribution and prints it
process_album_divide(duplicates, scrobble_info) ==
    LET total_scrobbles == Len(scrobble_info.timestamps)
        lastfm_album == strip(scrobble_info.album_orig)
        exact == AlbumMatches(duplicates, lastfm_album)
    IN  IF lastfm_album = <<>> THEN EqualDivide(duplicates, total_scrobbles)
        ELSE IF exact # {}
             THEN AllToOne(duplicates, duplicates[Min(exact)], total_scrobbles)
             ELSE EqualDivide(duplicates, total_scrobbles)

Albums == { <<>>, s_x, s_X_sp, s_y }

DupIds == { ids \in UNION { [1..n -> 1..MaxDup] : n \in 1..MaxDup } :
                \A i, j \in DOMAIN ids : i # j => ids[i] # ids[j] }

DupGroups ==
    UNION { { [i \in DOMAIN ids |-> Track(ids[i], s_ab, s_ab, albums[i])] :
                albums \in [DOMAIN ids -> Albums] } : ids \in DupIds }

InitDivide ==
    /\ InitSync
    /\ Unused
    /\ dp = NoDup
    /\ wb = NoWrite
    /\ rp = NoResolve
    /\ \E d \in DupGroups, t \in 0..MaxTotal, a \in Albums :
          dv = [duplicates |-> d, total |-> t, album_orig |-> a, distribution |-> <<>>,
                processed |-> <<>>, called |-> FALSE]

InfoOf(total, album_orig) ==
    [timestamps |-> [i \in 1..total |-> i], loved |-> FALSE, artist_orig |-> s_ab,
     track_orig |-> s_ab, album_orig |-> album_orig]

Divide ==
    /\ ~dv.called
    /\ dv' = [dv EXCEPT
                !.distribution =
                    calculate_album_divide(dv.duplicates, InfoOf(dv.total, dv.album_orig)),
                !.processed =
                    process_album_divide(dv.duplicates, InfoOf(dv.total, dv.album_orig)),
                !.called = TRUE]
    /\ UNCHANGED <<syncVars, dp, wb, rp, fn, ba>>

NextDivide == Divide

SpecDivide == InitDivide /\ [][NextDivide]_vars

-----------------------------------------------------------------------------
(* compute_differences Phase 2: one Last.fm identity and its duplicate group *)

DuplicatePolicies == {"ask", "all", "first", "skip"}

\* the answers the duplicate prompt accepts: "0", "A", "B" and the positions 1..N
AnswerAll == -1

AnswerDivide == -2

IdsOf(duplicates) == [i \in DOMAIN duplicates |-> duplicates[i].id]

ValidAnswers(duplicates) ==
    {0, AnswerAll} \cup (1..Len(duplicates))
        \cup (IF Len(duplicates) > 1 THEN {AnswerDivide} ELSE {})

\* (result, divide_info): divide is TRUE when the pair is the album-divide marker
prompt_user_for_duplicate_selection(duplicates, answer) ==
    IF answer = 0 THEN [result |-> <<>>, divide |-> FALSE]
    ELSE IF answer = AnswerAll THEN [result |-> IdsOf(duplicates), divide |-> FALSE]
    ELSE IF answer = AnswerDivide THEN [result |-> IdsOf(duplicates), divide |-> TRUE]
    ELSE [result |-> <<duplicates[answer].id>>, divide |-> FALSE]

\* DuplicateSelection store: source identity -> list of the target ids chosen
get_duplicate_selection(store, lastfm_artist, lastfm_track) ==
    IF <<lastfm_artist, lastfm_track>> \in DOMAIN store
    THEN store[<<lastfm_artist, lastfm_track>>]
    ELSE <<>>

save_duplicate_selection(store, lastfm_artist, lastfm_track, selected_track_ids) ==
    Upsert(store, <<lastfm_artist, lastfm_track>>, selected_track_ids)

NoResult == [given |-> FALSE, distribution |-> <<>>]

auto_selection_last(duplicates, mode, policy) ==
    IF Len(duplicates) <= 1 THEN <<>>
    ELSE IF mode = "album_agnostic" /\ policy = "ask" THEN IdsOf(duplicates)
    ELSE IF policy = "all" THEN IdsOf(duplicates)
    ELSE IF policy = "first" THEN <<duplicates[Len(duplicates)].id>>
    ELSE <<>>

\* auto_selection after the album_agnostic special case
auto_selection(duplicates, mode, policy) ==
    IF Len(duplicates) <= 1 THEN <<>>
    ELSE IF mode = "album_agnostic" /\ policy = "ask" THEN IdsOf(duplicates)
    ELSE IF policy = "all" THEN IdsOf(duplicates)
    ELSE IF policy = "first" THEN <<duplicates[1].id>>
    ELSE <<>>

\* should_prompt after the album_agnostic special case
should_prompt(duplicates, mode, policy) ==
    Len(duplicates) > 1 /\ policy = "ask" /\ mode # "album_agnostic"

\* the prompt and what follows it: the selection, the divide result, the store
Asked(duplicates, scrobble_info, store, answer) ==
    LET p == prompt_user_for_duplicate_selection(duplicates, answer)
        lastfm_artist == scrobble_info.artist_orig
        lastfm_track == scrobble_info.track_orig
    IN  IF p.divide
        THEN [prompted |-> TRUE, selected_track_ids |-> IdsOf(duplicates),
              album_divide_result |->
                  [given |-> TRUE,
                   distribution |-> process_album_divide(duplicates, scrobble_info)],
              store |-> save_duplicate_selection(store, lastfm_artist, lastfm_track,
                                                 IdsOf(duplicates))]
        ELSE IF p.result # <<>>
        THEN [prompted |-> TRUE, selected_track_ids |-> p.result,
              album_divide_result |-> NoResult,
              store |-> save_duplicate_selection(store, lastfm_artist, lastfm_track,
                                                 p.result)]
        ELSE [prompted |-> TRUE, selected_track_ids |-> <<>>,
              album_divide_result |-> NoResult, store |-> store]

\* the branch `elif should_prompt`: replay of a stored selection, or the prompt
Selection(duplicates, scrobble_info, store, answer) ==
    LET cached_selection ==
            get_duplicate_selection(store, scrobble_info.artist_orig,
                                    scrobble_info.track_orig)
        valid_ids == Range(IdsOf(duplicates))
        selected_track_ids == SelectSeq(cached_selection, LAMBDA tid : tid \in valid_ids)
    IN  IF cached_selection # <<>> /\ selected_track_ids # <<>>
        THEN [prompted |-> FALSE, selected_track_ids |-> selected_track_ids,
              album_divide_result |->
                  IF Len(selected_track_ids) = Len(duplicates) /\ Len(duplicates) > 1
                  THEN [given |-> TRUE,
                        distribution |-> calculate_album_divide(duplicates, scrobble_info)]
                  ELSE NoResult,
              store |-> store]
        ELSE Asked(duplicates, scrobble_info, store, answer)

\* the body of the Phase 2 loop up to the selection of the versions to process
Phase2(duplicates, scrobble_info, mode, policy, store, answer) ==
    IF Len(duplicates) > 1 /\ policy = "skip"
    THEN [prompted |-> FALSE, selected_track_ids |-> <<>>,
          album_divide_result |-> NoResult, store |-> store]
    ELSE IF auto_selection(duplicates, mode, policy) # <<>>
    THEN [prompted |-> FALSE,
          selected_track_ids |-> auto_selection(duplicates, mode, policy),
          album_divide_result |-> NoResult, store |-> store]
    ELSE IF should_prompt(duplicates, mode, policy)
    THEN Selection(duplicates, scrobble_info, store, answer)
    ELSE [prompted |-> FALSE, selected_track_ids |-> <<duplicates[1].id>>,
          album_divide_result |-> NoResult, store |-> store]

get_annotation_playcount_starred(annotation, track_id) ==
    IF track_id \in DOMAIN annotation
    THEN annotation[track_id]
    ELSE [play_count |-> 0, starred |-> FALSE]

\* the Last.fm count a selected version is compared with
lastfm_count(track_id, scrobble_info, album_divide_result) ==
    IF album_divide_result.given
    THEN IF track_id \in DOMAIN album_divide_result.distribution
         THEN album_divide_result.distribution[track_id]
         ELSE 0
    ELSE Len(scrobble_info.timestamps)

\* the entries the loop over the selected versions appends to differences
RECURSIVE Differences(_, _, _, _, _)
Differences(duplicates, selected, scrobble_info, album_divide_result, annotation) ==
    IF duplicates = <<>> THEN <<>>
    ELSE LET dup == Head(duplicates)
             rest == Differences(Tail(duplicates), selected, scrobble_info,
                                 album_divide_result, annotation)
             nav == get_annotation_playcount_starred(annotation, dup.id)
             count == lastfm_count(dup.id, scrobble_info, album_divide_result)
             track_scrobbles == scrobble_info.timestamps
             last_played == IF track_scrobbles = <<>> THEN 0
                            ELSE CHOOSE m \in Range(track_scrobbles) :
                                    \A t \in Range(track_scrobbles) : t <= m
         IN  IF dup.id \notin Range(selected) THEN rest
             ELSE IF count # nav.play_count \/ (scrobble_info.loved /\ ~nav.starred)
             THEN <<[id |-> dup.id, navidrome |-> nav.play_count,
                     nav_starred |-> nav.starred, lastfm |-> count,
                     last_played |-> last_played,
                     loved |-> scrobble_info.loved]>> \o rest
             ELSE rest

\* the versions, selected or not, with the count each selected one is compared with
Compared(duplicates, selected, scrobble_info, album_divide_result) ==
    LET chosen == SelectSeq(duplicates, LAMBDA dup : dup.id \in Range(selected))
    IN  [i \in DOMAIN chosen |->
            [id |-> chosen[i].id,
             lastfm |-> lastfm_count(chosen[i].id, scrobble_info, album_divide_result)]]

\* the album of the library track with this id
LibraryAlbum(id) ==
    CASE id = 1 -> s_x
      [] id = 2 -> s_X_sp
      [] id = 3 -> s_y
      [] OTHER -> <<>>

LibraryGroups == { [i \in DOMAIN ids |-> Track(ids[i], s_ab, s_ab, LibraryAlbum(ids[i]))] : ids \in DupIds }

Totals == {1, MaxTotal}

\* the annotation table: empty, or one row for track 1 that holds the Last.fm count
Annotations(total) == { <<>>, (1 :> [play_count |-> total, starred |-> TRUE]) }

ScrobbleInfo(total, album_orig, loved) ==
    [timestamps |-> [i \in 1..total |-> i], loved |-> loved, artist_orig |-> s_ab,
     track_orig |-> s_ab, album_orig |-> album_orig]

InitDup ==
    /\ InitCache
    /\ Unused
    /\ ALBUM_MATCHING_MODE \in AlbumModes
    /\ dv = NoDivide
    /\ wb = NoWrite
    /\ rp = NoResolve
    /\ \E d \in LibraryGroups, t \in Totals, a \in {<<>>, s_x}, l \in BOOLEAN,
          policy \in DuplicatePolicies :
          \E ann \in Annotations(t) :
             dp = [duplicates |-> d, total |-> t, album_orig |-> a, loved |-> l,
                   DUPLICATE_RESOLUTION |-> policy,
                   annotation |-> ann, duplicate_selections |-> <<>>,
                   handled |-> FALSE, runs |-> 0, prompted |-> FALSE,
                   selected_track_ids |-> <<>>, album_divide_result |-> NoResult,
                   compared |-> <<>>, differences |-> <<>>, store_before |-> <<>>]

\* one pass of the Phase 2 loop body for the identity of the group
HandleGroup(answer) ==
    /\ dp.runs < MaxRuns
    /\ LET info == ScrobbleInfo(dp.total, dp.album_orig, dp.loved)
           Run(a) == Phase2(dp.duplicates, info, ALBUM_MATCHING_MODE,
                            dp.DUPLICATE_RESOLUTION, dp.duplicate_selections, a)
           r == Run(answer)
       IN  /\ answer = 0 \/ (Run(0).prompted /\ answer \in ValidAnswers(dp.duplicates))
           /\ dp' = [dp EXCEPT
                        !.handled = TRUE,
                        !.runs = dp.runs + 1,
                        !.prompted = r.prompted,
                        !.selected_track_ids = r.selected_track_ids,
                        !.album_divide_result = r.album_divide_result,
                        !.duplicate_selections = r.store,
                        !.store_before = dp.duplicate_selections,
                        !.compared = Compared(dp.duplicates, r.selected_track_ids, info,
                                              r.album_divide_result),
                        !.differences = Differences(dp.duplicates, r.selected_track_ids,
                                                    info, r.album_divide_result,
                                                    dp.annotation)]
    /\ UNCHANGED <<syncVars, dv, wb, rp, fn, ba>>

\* between two runs a version of the group leaves the library
LibraryChange(i) ==
    /\ dp.handled
    /\ Len(dp.duplicates) > 1
    /\ i \in DOMAIN dp.duplicates
    /\ dp' = [dp EXCEPT
                 !.duplicates = SelectSeq(dp.duplicates,
                                          LAMBDA dup : dup # dp.duplicates[i]),
                 !.handled = FALSE]
    /\ UNCHANGED <<syncVars, dv, wb, rp, fn, ba>>

NextDup ==
    \/ \E answer \in AnswerDivide..MaxDup : HandleGroup(answer)
    \/ \E i \in 1..MaxDup : LibraryChange(i)

SpecDup == InitDup /\ [][NextDup]_vars

-----------------------------------------------------------------------------
(* Conflict resolver: resolve_playcount *)

ConflictModes == {"ask", "navidrome", "lastfm", "higher", "increment"}

\* what the human may type at the prompt of the mode `ask`
ConflictAnswers ==
    { <<>>, <<"n">>, <<"N">>, <<" ", "n", " ">>, <<"l">>, <<"L">>, <<"n", "o">>, s_x }

resolve_playcount_ask_lowers(nav, lastfm, mode, answer) ==
    IF mode = "increment"
    THEN [new_count |-> nav + lastfm, conflict |-> nav # lastfm, changed |-> TRUE,
          prompted |-> FALSE]
    ELSE IF lastfm > nav
    THEN [new_count |-> lastfm, conflict |-> TRUE, changed |-> TRUE, prompted |-> FALSE]
    ELSE IF nav > lastfm
    THEN IF mode = "ask"
         THEN [new_count |-> lastfm, conflict |-> TRUE, changed |-> TRUE,
               prompted |-> TRUE]
         ELSE IF mode = "navidrome" \/ mode = "higher"
         THEN [new_count |-> nav, conflict |-> TRUE, changed |-> FALSE,
               prompted |-> FALSE]
         ELSE [new_count |-> lastfm, conflict |-> TRUE, changed |-> TRUE,
               prompted |-> FALSE]
    ELSE [new_count |-> nav, conflict |-> FALSE, changed |-> FALSE, prompted |-> FALSE]

resolve_playcount_higher_wins(nav, lastfm, mode, answer) ==
    IF mode = "increment"
    THEN [new_count |-> nav + lastfm, conflict |-> nav # lastfm, changed |-> TRUE,
          prompted |-> FALSE]
    ELSE IF lastfm > nav /\ mode # "navidrome"
    THEN [new_count |-> lastfm, conflict |-> TRUE, changed |-> TRUE, prompted |-> FALSE]
    ELSE [new_count |-> nav, conflict |-> FALSE, changed |-> FALSE, prompted |-> FALSE]

resolve_playcount_increment_keeps(nav, lastfm, mode, answer) ==
    IF mode = "increment"
    THEN [new_count |-> Max2(nav, lastfm), conflict |-> nav # lastfm,
          changed |-> lastfm > nav, prompted |-> FALSE]
    ELSE [new_count |-> nav, conflict |-> FALSE, changed |-> FALSE, prompted |-> FALSE]

\* (new_count, conflict, changed), and whether the human was asked
resolve_playcount(nav, lastfm, mode, answer) ==
    IF mode = "increment"
    THEN [new_count |-> nav + lastfm, conflict |-> nav # lastfm, changed |-> TRUE,
          prompted |-> FALSE]
    ELSE IF lastfm > nav
    THEN [new_count |-> lastfm, conflict |-> TRUE, changed |-> TRUE, prompted |-> FALSE]
    ELSE IF nav > lastfm
    THEN IF mode = "ask"
         THEN LET choice == lower(strip(answer))
                  new_count == IF choice \in {<<>>, <<"n">>} THEN nav ELSE lastfm
              IN  [new_count |-> new_count, conflict |-> TRUE,
                   changed |-> new_count # nav, prompted |-> TRUE]
         ELSE IF mode = "navidrome" \/ mode = "higher"
         THEN [new_count |-> nav, conflict |-> TRUE, changed |-> FALSE,
               prompted |-> FALSE]
         ELSE IF mode = "lastfm"
         THEN [new_count |-> lastfm, conflict |-> TRUE, changed |-> TRUE,
               prompted |-> FALSE]
         ELSE [new_count |-> nav, conflict |-> FALSE, changed |-> FALSE,
               prompted |-> FALSE]
    ELSE [new_count |-> nav, conflict |-> FALSE, changed |-> FALSE, prompted |-> FALSE]

InitResolve ==
    /\ InitSync
    /\ Unused
    /\ dv = NoDivide
    /\ dp = NoDup
    /\ wb = NoWrite
    /\ \E nav \in 0..MaxCount, lastfm \in 0..MaxCount, mode \in ConflictModes :
          rp = [nav |-> nav, lastfm |-> lastfm, mode |-> mode, called |-> FALSE,
                answer |-> <<>>, new_count |-> 0, conflict |-> FALSE,
                changed |-> FALSE, prompted |-> FALSE]

\* one call of resolve_playcount; the answer is read only when the call prompts
Resolve(answer) ==
    /\ ~rp.called
    /\ LET r == resolve_playcount(rp.nav, rp.lastfm, rp.mode, answer)
       IN  /\ answer = <<>> \/ r.prompted
           /\ rp' = [rp EXCEPT !.called = TRUE, !.answer = answer,
                               !.new_count = r.new_count, !.conflict = r.conflict,
                               !.changed = r.changed, !.prompted = r.prompted]
    /\ UNCHANGED <<syncVars, dv, dp, wb, fn, ba>>

NextResolve == \E answer \in ConflictAnswers : Resolve(answer)

SpecResolve == InitResolve /\ [][NextResolve]_vars

-----------------------------------------------------------------------------
(* Write-back: one selected version, from its comparison to update_annotation *)

update_annotation_sets_starred(annotation, track_id, new_count, new_last_played, loved) ==
    Upsert(annotation, track_id,
           [play_count |-> new_count, starred |-> loved, play_date |-> new_last_played])

\* the annotation table after update_annotation; a play_date of 0 stands for NULL
update_annotation(annotation, track_id, new_count, new_last_played, loved) ==
    LET exists == track_id \in DOMAIN annotation
        existing_play_date == IF exists THEN annotation[track_id].play_date ELSE 0
        play_date ==
            IF new_last_played # 0
                  /\ (existing_play_date = 0 \/ new_last_played > existing_play_date)
            THEN new_last_played
            ELSE existing_play_date
    IN  IF exists
        THEN Upsert(annotation, track_id,
                    [play_count |-> new_count,
                     starred |-> IF loved THEN TRUE ELSE annotation[track_id].starred,
                     play_date |-> play_date])
        ELSE Upsert(annotation, track_id,
                    [play_count |-> new_count, starred |-> loved, play_date |-> play_date])

\* the annotation table after the loop of apply_updates over differences
RECURSIVE apply_updates(_, _, _, _)
apply_updates(differences, annotation, mode, answer) ==
    IF differences = <<>> THEN annotation
    ELSE LET d == Head(differences)
             r == resolve_playcount(d.navidrome, d.lastfm, mode, answer)
         IN  apply_updates(Tail(differences),
                           update_annotation(annotation, d.id, r.new_count,
                                             d.last_played, d.loved),
                           mode, answer)

\* the annotation table of the user: no row for track 1, or one row
AnnotationTables ==
    { <<>> } \cup
    { (1 :> [play_count |-> c, starred |-> st, play_date |-> pd]) :
        c \in 0..MaxCount, st \in BOOLEAN, pd \in {0, 1, MaxCount + 1} }

\* the matched identity has MaxCount scrobbles; an album-aware divide may assign fewer
WriteResult(count) ==
    IF count = MaxCount THEN NoResult
    ELSE [given |-> TRUE, distribution |-> (1 :> count)]

InitWrite ==
    /\ InitSync
    /\ Unused
    /\ dv = NoDivide
    /\ dp = NoDup
    /\ rp = NoResolve
    /\ \E ann \in AnnotationTables, count \in 0..MaxCount, l \in BOOLEAN,
          mode \in ConflictModes :
          wb = [pc |-> "compare", annotation |-> ann, lastfm |-> count, loved |-> l,
                PLAYCOUNT_CONFLICT_RESOLUTION |-> mode, differences |-> <<>>,
                before |-> ann, answer |-> <<>>]

\* compute_differences for the selected version with id 1
CompareVersion ==
    /\ wb.pc = "compare"
    /\ LET differences ==
               Differences(<<Track(1, s_ab, s_ab, <<>>)>>, <<1>>,
                           ScrobbleInfo(MaxCount, <<>>, wb.loved),
                           WriteResult(wb.lastfm), wb.annotation)
       IN  wb' = [wb EXCEPT !.differences = differences,
                            !.pc = IF differences = <<>> THEN "in_sync" ELSE "listed"]
    /\ UNCHANGED <<syncVars, dv, dp, rp, fn, ba>>

\* main() from `if differences:` on: the confirmation, then the loop of apply_updates
ApplyUpdates(confirm, answer) ==
    /\ wb.pc = "listed"
    /\ LET d == wb.differences[1]
           r == resolve_playcount(d.navidrome, d.lastfm,
                                  wb.PLAYCOUNT_CONFLICT_RESOLUTION, answer)
       IN  /\ answer = <<>> \/ (confirm /\ r.prompted)
           /\ wb' = IF confirm
                    THEN [wb EXCEPT
                             !.annotation =
                                 apply_updates(wb.differences, wb.annotation,
                                               wb.PLAYCOUNT_CONFLICT_RESOLUTION, answer),
                             !.answer = answer,
                             !.pc = "written"]
                    ELSE [wb EXCEPT !.pc = "dry_run"]
           /\ scrobbles' = IF confirm
                           THEN mark_scrobbles_synced(scrobbles, s_ab, s_ab)
                           ELSE scrobbles
    /\ UNCHANGED <<loved_tracks, ALBUM_MATCHING_MODE, aggregated_scrobbles, matchVars,
                   dv, dp, rp, fn, ba>>

NextWrite ==
    \/ CompareVersion
    \/ \E confirm \in BOOLEAN, answer \in ConflictAnswers : ApplyUpdates(confirm, answer)

SpecWrite == InitWrite /\ [][NextWrite]_vars

-----------------------------------------------------------------------------
(* Scrobble cache: fetches, loved tracks and sync marks *)

\* a run of main() over an empty library: the cache is updated, then main returns
CacheFetch(mode, new, loved_tracks_list) ==
    /\ Len(scrobbles) + Len(new) <= MaxScrobbles
    /\ FetchAndAggregate(mode, new, loved_tracks_list)
    /\ UNCHANGED <<matchVars, dv, dp, wb, rp, fn, ba>>

\* apply_updates marks the scrobbles of a written identity as synced
MarkSynced(k) ==
    /\ k \in DOMAIN aggregated_scrobbles
    /\ scrobbles' = mark_scrobbles_synced(scrobbles, aggregated_scrobbles[k].artist_orig,
                                          aggregated_scrobbles[k].track_orig)
    /\ UNCHANGED <<loved_tracks, ALBUM_MATCHING_MODE, aggregated_scrobbles, matchVars,
                   dv, dp, wb, rp, fn, ba>>

\* cache_info.py: reset of the sync status
ResetSync ==
    /\ scrobbles' = reset_sync_status(scrobbles)
    /\ UNCHANGED <<loved_tracks, ALBUM_MATCHING_MODE, aggregated_scrobbles, matchVars,
                   dv, dp, wb, rp, fn, ba>>

\* the scrobbles the cache runs fetch: two casings of one identity, one loved, and a
\* scrobble with an album
CachePool ==
    { Scrobble(s_ab, s_abc, <<>>, FALSE),
      Scrobble(s_Ab, s_abc, <<>>, TRUE),
      Scrobble(s_ab, s_ab, s_x, FALSE) }

AggregatedKeys ==
    { make_key_lastfm(s.artist, s.track, s.album, aa) : s \in CachePool, aa \in BOOLEAN }

NextCache ==
    \/ \E mode \in AlbumModes, loved \in LovedLists :
          \E new \in {<<>>} \cup { <<s>> : s \in CachePool } : CacheFetch(mode, new, loved)
    \/ \E k \in AggregatedKeys : MarkSynced(k)
    \/ ResetSync

SpecCache == Init /\ [][NextCache]_vars

-----------------------------------------------------------------------------
(* The two key functions, applied to one artist/title/album *)

s_A_feat_B == <<"A", " ", "f", "e", "a", "t", ".", " ", "B">>

\* artist strings as Last.fm and Navidrome hold them
ArtistPool ==
    { s_A_feat_B, s_A_amp_B, s_ab_amp_c, s_ab, s_Ab, s_X_sp, <<>>, <<" ", " ">>,
      <<"a", " ", "&", "b">>, <<"&", " ", "b">>, <<" ", "a", " ", " ", "&", " ", "b", " ">>,
      <<"a", " ", "x", " ", "b", " ", "&", " ", "c">>, <<"a", " ", "F", "T", " ", "b">>,
      <<"a", " ", "f", "e", "a", "t", ".", "b", " ", "-", " ", "c">> }

InitKey ==
    /\ InitSync
    /\ dv = NoDivide /\ dp = NoDup /\ wb = NoWrite /\ rp = NoResolve /\ ba = NoBatch
    /\ \E artist \in ArtistPool, title \in {s_ab, s_X_sp}, album \in Albums,
          album_aware \in BOOLEAN :
          fn = [called |-> FALSE, artist |-> artist, title |-> title, album |-> album,
                album_aware |-> album_aware, lastfm |-> <<>>, navidrome |-> <<>>]

\* the same artist/title/album keyed as a scrobble and as a library track
MakeKeys ==
    /\ ~fn.called
    /\ fn' = [fn EXCEPT
                !.called = TRUE,
                !.lastfm = make_key_lastfm(fn.artist, fn.title, fn.album, fn.album_aware),
                !.navidrome =
                    make_key_navidrome(fn.artist, fn.title, fn.album, fn.album_aware)]
    /\ UNCHANGED <<syncVars, dv, dp, wb, rp, ba>>

NextKey == MakeKeys

SpecKey == InitKey /\ [][NextKey]_vars

-----------------------------------------------------------------------------
(* The aggregator, applied to one event list and to a permutation of it *)

MaxEvents == 3

\* what a scrobble row may hold: artist and track may be empty or blank
EventPool ==
    { Scrobble(s_ab, s_abc, <<>>, FALSE),
      Scrobble(s_Ab, s_abc, s_x, TRUE),
      Scrobble(s_ab_amp_c, s_abc, s_x, FALSE),
      Scrobble(<<>>, s_ab, <<>>, TRUE),
      Scrobble(s_ab, <<" ">>, <<>>, FALSE) }

\* the i-th event of a list is played at time i
Events(es) ==
    [i \in DOMAIN es |->
        [artist |-> es[i].artist, track |-> es[i].track, album |-> es[i].album,
         loved |-> es[i].loved, timestamp |-> i]]

Orders(n) == { p \in [1..n -> 1..n] : \A i, j \in 1..n : p[i] = p[j] => i = j }

Permuted(l, p) == [i \in DOMAIN l |-> l[p[i]]]

make_key(artist, title) == <<normalize(first_artist(artist)), normalize(title)>>

\* the aggregator of aggregation.py, which no module imports: as aggregate_scrobbles, but
\* keyed by make_key
aggregation_aggregate_scrobbles(l) ==
    LET KeyOf(s) == make_key(s.artist, s.track)
        keys == { KeyOf(l[i]) : i \in DOMAIN l }
    IN  [k \in keys |->
            LET idx == { i \in DOMAIN l : KeyOf(l[i]) = k }
            IN  [timestamps |-> [n \in 1..Cardinality(idx) |->
                                    l[CHOOSE i \in idx :
                                        Cardinality({ j \in idx : j < i }) = n - 1].timestamp],
                 loved |-> \E i \in idx : l[i].loved,
                 artist_orig |-> l[Min(idx)].artist,
                 track_orig |-> l[Min(idx)].track,
                 album_orig |-> l[Min(idx)].album]]

InitAggregate ==
    /\ InitSync
    /\ dv = NoDivide /\ dp = NoDup /\ wb = NoWrite /\ rp = NoResolve /\ ba = NoBatch
    /\ \E n \in 0..MaxEvents, album_aware \in BOOLEAN :
          \E es \in [1..n -> EventPool], p \in Orders(n) :
              fn = [called |-> FALSE, scrobbles |-> Events(es),
                    permuted |-> Permuted(Events(es), p), album_aware |-> album_aware,
                    aggregated |-> <<>>, aggregated_permuted |-> <<>>, unkeyed |-> <<>>]

\* aggregate_scrobbles on the list and on its permutation
Aggregate ==
    /\ ~fn.called
    /\ fn' = [fn EXCEPT
                !.called = TRUE,
                !.aggregated = aggregate_scrobbles(fn.scrobbles, fn.album_aware),
                !.aggregated_permuted = aggregate_scrobbles(fn.permuted, fn.album_aware),
                !.unkeyed = aggregation_aggregate_scrobbles(fn.scrobbles)]
    /\ UNCHANGED <<syncVars, dv, dp, wb, rp, ba>>

NextAggregate == Aggregate

SpecAggregate == InitAggregate /\ [][NextAggregate]_vars

-----------------------------------------------------------------------------
(* The fuzzy matcher, applied to one library track and one aggregated map *)

s_a == <<"a">>

s_ab_and_c == <<"a", "b", " ", "a", "n", "d", " ", "c">>

FuzzyPool ==
    { Scrobble(s_ab, s_abc, <<>>, FALSE),
      Scrobble(s_ab, s_abc, s_x, TRUE),
      Scrobble(s_abc, s_abc, <<>>, FALSE),
      Scrobble(s_a, s_abc, <<>>, FALSE),
      Scrobble(s_Ab, s_ab, <<>>, FALSE),
      Scrobble(s_ab, s_x, <<>>, FALSE),
      Scrobble(s_ab_and_c, s_abc, <<>>, FALSE) }

InitFuzzy ==
    /\ InitSync
    /\ dv = NoDivide /\ dp = NoDup /\ wb = NoWrite /\ rp = NoResolve /\ ba = NoBatch
    /\ \E n \in 1..MaxEvents, album_aware \in BOOLEAN :
          \E es \in [1..n -> FuzzyPool], artist \in {s_ab, s_ab_amp_c},
             title \in {s_abc, s_ab} :
              fn = [called |-> FALSE, navidrome_artist |-> artist,
                    navidrome_track |-> title, scrobbles |-> Events(es),
                    album_aware |-> album_aware, threshold |-> FUZZY_THRESHOLD,
                    aggregated |-> <<>>, matches |-> <<>>]

\* aggregate_scrobbles, then find_fuzzy_matches_for_navidrome_track on its result
FindFuzzyMatches ==
    /\ ~fn.called
    /\ LET agg == aggregate_scrobbles(fn.scrobbles, fn.album_aware)
           order == KeyOrder(fn.scrobbles, fn.album_aware)
       IN  fn' = [fn EXCEPT
                    !.called = TRUE,
                    !.aggregated = agg,
                    !.matches = find_fuzzy_matches_for_navidrome_track(
                                    fn.navidrome_artist, fn.navidrome_track, agg, order,
                                    fn.threshold)]
    /\ UNCHANGED <<syncVars, dv, dp, wb, rp, ba>>

NextFuzzy == FindFuzzyMatches

SpecFuzzy == InitFuzzy /\ [][NextFuzzy]_vars

-----------------------------------------------------------------------------
(* One run from the configuration to apply_updates, statement by statement *)

\* values of PLAYCOUNT_CONFLICT_RESOLUTION and DUPLICATE_RESOLUTION in the .env file
ConflictEnv == ConflictModes \cup {"LASTFM", "bogus"}

DuplicateEnv == {"ask", "First", "none"}

\* str.lower() on the values above
LowerEnv(s) ==
    CASE s = "LASTFM" -> "lastfm"
      [] s = "First" -> "first"
      [] OTHER -> s

VALID_CONFLICT_MODES == {"ask", "navidrome", "lastfm", "higher", "increment"}

VALID_DUPLICATE_MODES == {"ask", "all", "first", "skip"}

PLAYCOUNT_CONFLICT_RESOLUTION_unchecked(env) == LowerEnv(env)

\* config.py: the setting after validation
PLAYCOUNT_CONFLICT_RESOLUTION(env) ==
    IF LowerEnv(env) \notin VALID_CONFLICT_MODES THEN "ask" ELSE LowerEnv(env)

DUPLICATE_RESOLUTION(env) ==
    IF LowerEnv(env) \notin VALID_DUPLICATE_MODES THEN "ask" ELSE LowerEnv(env)

CacheRow(artist, track, timestamp, loved) ==
    [artist |-> artist, album |-> <<>>, track |-> track, timestamp |-> timestamp,
     loved |-> loved, synced |-> FALSE]

\* the cache before the run: two scrobbles of the identity of track 1, the later one in
\* either casing, and one scrobble of the identity of track 2
BatchTables ==
    { << CacheRow(s_ab, s_ab, 1, l1), CacheRow(s_ab, s_abc, 2, FALSE),
         CacheRow(artist, s_ab, 3, FALSE) >> :
        l1 \in BOOLEAN, artist \in {s_ab, s_Ab} }

\* the annotation rows of the two library tracks
BatchAnnotations ==
    [TrackIds -> { [play_count |-> c, starred |-> st, play_date |-> 0] :
                      c \in {0, 1, MaxCount}, st \in BOOLEAN }]

\* Phase 1 for the library: the cache holds no decision, every track is matched exactly
BatchMatches(agg, order) ==
    [i \in TrackIds |->
        get_lastfm_match_for_navidrome_track(CHOOSE t \in Range(Tracks) : t.id = i,
            agg, order, <<>>, <<>>, FUZZY_THRESHOLD, TRUE, FALSE, NoKeys, 0).result]

\* Phase 2 for the library: every matched track is alone in its group
BatchDifferences(agg, matches, annotation) ==
    LET For(t) ==
            IF matches[t.id] = None THEN <<>>
            ELSE LET info == agg[matches[t.id]]
                     ds == Differences(<<t>>, <<t.id>>, info, NoResult, annotation)
                 IN  [i \in DOMAIN ds |->
                         [id |-> ds[i].id, navidrome |-> ds[i].navidrome,
                          nav_starred |-> ds[i].nav_starred, lastfm |-> ds[i].lastfm,
                          last_played |-> ds[i].last_played, loved |-> ds[i].loved,
                          lastfm_artist |-> info.artist_orig,
                          lastfm_track |-> info.track_orig]]
    IN  For(Tracks[1]) \o For(Tracks[2])

\* before `import src.config`: the cache file, the library and the .env file
InitBatch ==
    /\ scrobbles \in BatchTables
    /\ loved_tracks = <<>>
    /\ ALBUM_MATCHING_MODE = "album_agnostic"
    /\ aggregated_scrobbles = <<>>
    /\ fuzzy_match_mappings = <<>>
    /\ skipped_tracks = <<>>
    /\ ENABLE_FUZZY_MATCHING = TRUE
    /\ pc = "idle"
    /\ track_i = 1
    /\ track_matches = [i \in TrackIds |-> None]
    /\ prompts = 0
    /\ prev = NoPrev
    /\ runs = 0
    /\ last = NoCall
    /\ dv = NoDivide /\ dp = NoDup /\ wb = NoWrite /\ rp = NoResolve /\ fn = NoApply
    /\ \E ann \in BatchAnnotations, ec \in ConflictEnv, ed \in DuplicateEnv :
          ba = [pc |-> "config", env_conflict |-> ec, env_duplicate |-> ed,
                PLAYCOUNT_CONFLICT_RESOLUTION |-> "", DUPLICATE_RESOLUTION |-> "",
                annotation |-> ann, i |-> 1, differences |-> <<>>, written |-> <<>>,
                updated_track_ids |-> <<>>, last_sync_time |-> 0, recalculated |-> <<>>,
                run |-> 1, first |-> <<>>, first_end |-> ""]

\* import of src.config: both settings are validated
LoadConfig ==
    /\ ba.pc = "config"
    /\ ba' = [ba EXCEPT
                !.PLAYCOUNT_CONFLICT_RESOLUTION =
                    PLAYCOUNT_CONFLICT_RESOLUTION(ba.env_conflict),
                !.DUPLICATE_RESOLUTION = DUPLICATE_RESOLUTION(ba.env_duplicate),
                !.pc = "loaded"]
    /\ UNCHANGED <<syncVars, dv, dp, wb, rp, fn>>

\* main() up to `if differences:`, with nothing new to fetch
ComputeDifferences ==
    /\ ba.pc = "loaded"
    /\ aggregated_scrobbles' = aggregate_scrobbles(get_all_scrobbles(scrobbles), FALSE)
    /\ track_matches' = BatchMatches(aggregated_scrobbles',
                                     KeyOrder(get_all_scrobbles(scrobbles), FALSE))
    /\ LET differences ==
               BatchDifferences(aggregated_scrobbles', track_matches', ba.annotation)
       IN  ba' = [ba EXCEPT !.differences = differences,
                            !.pc = IF differences = <<>> THEN "in_sync" ELSE "listed"]
    /\ pc' = "done"
    /\ track_i' = Len(Tracks) + 1
    /\ runs' = runs + 1
    /\ UNCHANGED <<scrobbles, loved_tracks, ALBUM_MATCHING_MODE, fuzzy_match_mappings,
                   skipped_tracks, ENABLE_FUZZY_MATCHING, prompts, prev, last,
                   dv, dp, wb, rp, fn>>

Confirm_stamps(yes) ==
    /\ ba.pc = "listed"
    /\ ba' = [ba EXCEPT !.pc = IF yes THEN "loop" ELSE "dry_run",
                        !.last_sync_time = ba.run]
    /\ UNCHANGED <<syncVars, dv, dp, wb, rp, fn>>

\* apply_updates up to its loop: prompt_yes_no
Confirm(yes) ==
    /\ ba.pc = "listed"
    /\ ba' = [ba EXCEPT !.pc = IF yes THEN "loop" ELSE "dry_run"]
    /\ UNCHANGED <<syncVars, dv, dp, wb, rp, fn>>

\* one iteration up to the commit of update_annotation
UpdateAnnotation(answer) ==
    /\ ba.pc = "loop"
    /\ LET d == ba.differences[ba.i]
           r == resolve_playcount(d.navidrome, d.lastfm,
                                  ba.PLAYCOUNT_CONFLICT_RESOLUTION, answer)
           annotation == update_annotation(ba.annotation, d.id, r.new_count,
                                           d.last_played, d.loved)
           will_update_loved == d.loved /\ ~d.nav_starred
           track_was_updated == r.new_count # d.navidrome \/ will_update_loved
       IN  /\ answer = <<>> \/ r.prompted
           /\ ba' = [ba EXCEPT !.annotation = annotation,
                               !.written = Upsert(ba.written, d.id, annotation[d.id]),
                               !.updated_track_ids =
                                   IF track_was_updated THEN Append(@, d.id) ELSE @,
                               !.pc = "annotated"]
    /\ UNCHANGED <<syncVars, dv, dp, wb, rp, fn>>

\* the rest of the iteration: the commit of mark_scrobbles_synced
MarkDifferenceSynced ==
    /\ ba.pc = "annotated"
    /\ LET d == ba.differences[ba.i]
       IN  scrobbles' = mark_scrobbles_synced(scrobbles, d.lastfm_artist, d.lastfm_track)
    /\ ba' = [ba EXCEPT !.i = ba.i + 1,
                        !.pc = IF ba.i = Len(ba.differences) THEN "looped" ELSE "loop"]
    /\ UNCHANGED <<loved_tracks, ALBUM_MATCHING_MODE, aggregated_scrobbles, matchVars,
                   dv, dp, wb, rp, fn>>

\* apply_updates after its loop: set_metadata('last_sync_time', now), where now is the
\* number of the run, then update_artist_play_counts and update_album_play_counts
FinishUpdates ==
    /\ ba.pc = "looped"
    /\ ba' = [ba EXCEPT !.last_sync_time = ba.run,
                        !.recalculated = Append(@, ba.updated_track_ids),
                        !.pc = "done"]
    /\ UNCHANGED <<syncVars, dv, dp, wb, rp, fn>>

MaxBatchRuns == 2

\* main() returns and is started again: same cache file, same library, same .env file
NextRun ==
    /\ ba.pc \in {"done", "in_sync", "dry_run"}
    /\ ba.run < MaxBatchRuns
    /\ ba' = [ba EXCEPT !.pc = "config", !.i = 1, !.differences = <<>>,
                        !.written = <<>>, !.updated_track_ids = <<>>,
                        !.run = ba.run + 1,
                        !.first = IF ba.run = 1 THEN ba.annotation ELSE @,
                        !.first_end = IF ba.run = 1 THEN ba.pc ELSE @]
    /\ UNCHANGED <<syncVars, dv, dp, wb, rp, fn>>

\* the process is interrupted abruptly: what the two databases have committed stays
Crash ==
    /\ ba.pc \in {"loop", "annotated"}
    /\ ba' = [ba EXCEPT !.pc = "crashed"]
    /\ UNCHANGED <<syncVars, dv, dp, wb, rp, fn>>

\* the statement about to run raises (sqlite3.Error, EOFError of input()): neither the
\* loop nor main() has a handler, the exception leaves main() through `finally`
Raise ==
    /\ ba.pc \in {"loop", "annotated"}
    /\ ba' = [ba EXCEPT !.pc = "failed"]
    /\ UNCHANGED <<syncVars, dv, dp, wb, rp, fn>>

NextBatch ==
    \/ LoadConfig
    \/ ComputeDifferences
    \/ \E yes \in BOOLEAN : Confirm(yes)
    \/ \E answer \in ConflictAnswers : UpdateAnnotation(answer)
    \/ MarkDifferenceSynced
    \/ Crash
    \/ Raise
    \/ FinishUpdates
    \/ NextRun

SpecBatch == InitBatch /\ [][NextBatch]_vars

-----------------------------------------------------------------------------
(* The missing report *)

\* the keys of the aggregated identities that get an entry in missing_scrobbles
group_missing_by_artist_album(agg, tracks, fm, album_aware) ==
    LET nav_keys ==
            { make_key_navidrome(tracks[i].artist, tracks[i].title, tracks[i].album,
                                 album_aware) : i \in DOMAIN tracks }
        nav_keys_album_agnostic ==
            IF album_aware
            THEN { make_key_navidrome(tracks[i].artist, tracks[i].title, None, FALSE) :
                      i \in DOMAIN tracks }
            ELSE {}
        fuzzy_matched_lastfm_keys ==
            { make_key_lastfm(fm[id][1], fm[id][2], None, FALSE) : id \in DOMAIN fm }
            \cup (IF album_aware
                  THEN { make_key_lastfm(fm[id][1], fm[id][2], <<>>, TRUE) :
                            id \in DOMAIN fm }
                  ELSE {})
        exact_match(key) == key \in nav_keys
        album_agnostic_match(key) ==
            /\ album_aware
            /\ ~exact_match(key)
            /\ make_key_navidrome(agg[key].artist_orig, agg[key].track_orig, None, FALSE)
                  \in nav_keys_album_agnostic
        fuzzy_match(key) == key \in fuzzy_matched_lastfm_keys
    IN  { key \in DOMAIN agg :
            ~(exact_match(key) \/ album_agnostic_match(key) \/ fuzzy_match(key)) }

\* main(): the report write_missing_reports writes after compute_differences
write_missing_reports ==
    group_missing_by_artist_album(aggregated_scrobbles, Tracks, fuzzy_match_mappings,
                                  ALBUM_MATCHING_MODE = "album_aware")

-----------------------------------------------------------------------------
(* compute_differences over a library: Phase 1, the duplicate groups, Phase 2 *)

MaxLibrary == 3

\* library tracks with unique ids: three versions of one song and one other song
GroupTracks ==
    << Track(1, s_ab, s_ab, s_x), Track(2, s_ab, s_ab, s_X_sp),
       Track(3, s_Ab, s_ab, s_y), Track(4, s_ab_amp_c, s_abc, <<>>) >>

\* the libraries: up to MaxLibrary of the tracks, in any order
Libraries ==
    { [i \in DOMAIN ids |-> GroupTracks[ids[i]]] :
        ids \in { s \in UNION { [1..n -> DOMAIN GroupTracks] : n \in 2..MaxLibrary } :
                    \A i, j \in DOMAIN s : i # j => s[i] # s[j] } }

GroupEvents ==
    << Scrobble(s_ab, s_ab, s_x, FALSE), Scrobble(s_ab, s_ab, <<>>, FALSE),
       Scrobble(s_Ab, s_ab, s_y, TRUE), Scrobble(s_ab, s_abc, <<>>, FALSE) >>

\* the cached scrobbles: some of the events, newest first
EventLists ==
    { LET l == SelectSeq(GroupEvents, LAMBDA e : e \in S)
      IN  [i \in DOMAIN l |->
              [artist |-> l[i].artist, track |-> l[i].track, album |-> l[i].album,
               loved |-> l[i].loved, timestamp |-> Len(l) + 1 - i]] :
        S \in SUBSET Range(GroupEvents) \ {{}} }

duplicate_key(scrobble_info, mode) ==
    IF mode = "album_aware"
    THEN <<scrobble_info.artist_orig, scrobble_info.track_orig, scrobble_info.album_orig>>
    ELSE <<scrobble_info.artist_orig, scrobble_info.track_orig>>

\* Phase 1: the list track_matches, in library order; the human rejects every fuzzy candidate
RECURSIVE Phase1(_, _, _, _, _)
Phase1(tracks, agg, order, fm, mode) ==
    IF tracks = <<>> THEN <<>>
    ELSE LET r == get_lastfm_match_for_navidrome_track(Head(tracks), agg, order, fm,
                      <<>>, FUZZY_THRESHOLD, TRUE, mode = "album_aware", NoKeys, 0)
             rest == Phase1(Tail(tracks), agg, order, fm, mode)
         IN  IF r.result = None THEN rest
             ELSE <<[nav_track |-> Head(tracks), scrobble_info |-> agg[r.result]]>> \o rest

\* potential_duplicates after Phase 1: duplicate_key -> the tracks appended under it
potential_duplicates(matches, mode) ==
    LET keys == { duplicate_key(matches[i].scrobble_info, mode) :
                    i \in DOMAIN matches }
    IN  [k \in keys |->
            LET ms == SelectSeq(matches,
                                LAMBDA m : duplicate_key(m.scrobble_info, mode) = k)
            IN  [i \in DOMAIN ms |-> ms[i].nav_track]]

AlreadyProcessed_never(processing_key, processed_lastfm_keys) == FALSE

\* `if processing_key in processed_lastfm_keys: continue`
AlreadyProcessed(processing_key, processed_lastfm_keys) ==
    processing_key \in Range(processed_lastfm_keys)

\* the Phase 2 loop over the list track_matches; processed_lastfm_keys lists the keys in the order
\* their groups were processed
RECURSIVE Phase2Loop(_, _, _, _, _, _, _, _)
Phase2Loop(matches, groups, mode, policy, annotation, answer, store, processed_lastfm_keys) ==
    IF matches = <<>>
    THEN [differences |-> <<>>, processed_lastfm_keys |-> processed_lastfm_keys,
          store |-> store]
    ELSE LET scrobble_info == Head(matches).scrobble_info
             processing_key == duplicate_key(scrobble_info, mode)
         IN  IF AlreadyProcessed(processing_key, processed_lastfm_keys)
             THEN Phase2Loop(Tail(matches), groups, mode, policy, annotation,
                             answer, store, processed_lastfm_keys)
             ELSE LET duplicates == groups[processing_key]
                      p == Phase2(duplicates, scrobble_info, mode, policy, store, answer)
                      ds == Differences(duplicates, p.selected_track_ids, scrobble_info,
                                        p.album_divide_result, annotation)
                      next == Phase2Loop(Tail(matches), groups, mode, policy,
                                         annotation, answer, p.store,
                                         Append(processed_lastfm_keys, processing_key))
                  IN  [next EXCEPT !.differences = ds \o @]

InitGroups ==
    /\ InitSync
    /\ dv = NoDivide /\ dp = NoDup /\ wb = NoWrite /\ rp = NoResolve /\ ba = NoBatch
    /\ \E tracks \in Libraries, l \in EventLists, mode \in AlbumModes,
          policy \in DuplicatePolicies, answer \in {0, 1, AnswerAll, AnswerDivide},
          fm \in { <<>>, (4 :> <<s_ab, s_ab>>) } :
          \* only the policy `ask` prompts
          /\ policy # "ask" => answer = 0
          /\ fn = [called |-> FALSE, tracks |-> tracks, scrobbles |-> l, mode |-> mode,
                   policy |-> policy, answer |-> answer, fm |-> fm,
                   track_matches |-> <<>>, potential_duplicates |-> <<>>,
                   processed_lastfm_keys |-> <<>>, differences |-> <<>>]

\* compute_differences for the library, with an empty annotation table
CompareLibrary ==
    /\ ~fn.called
    /\ LET album_aware == fn.mode = "album_aware"
           agg == aggregate_scrobbles(fn.scrobbles, album_aware)
           matches == Phase1(fn.tracks, agg, KeyOrder(fn.scrobbles, album_aware),
                                   fn.fm, fn.mode)
           groups == potential_duplicates(matches, fn.mode)
           r == Phase2Loop(matches, groups, fn.mode, fn.policy, <<>>, fn.answer,
                           <<>>, <<>>)
       IN  fn' = [fn EXCEPT !.called = TRUE,
                            !.track_matches = matches,
                            !.potential_duplicates = groups,
                            !.processed_lastfm_keys = r.processed_lastfm_keys,
                            !.differences = r.differences]
    /\ UNCHANGED <<syncVars, dv, dp, wb, rp, ba>>

NextGroups == CompareLibrary

SpecGroups == InitGroups /\ [][NextGroups]_vars

-----------------------------------------------------------------------------
(* fetch_lastfm_page: one page request with its retries *)

MAX_RETRIES == 5

RETRY_DELAY == 5

\* what one requests.get(url, timeout=10) followed by r.json() can come to
PageResponses ==
    { "ok",                 \* status 200, a JSON body without the key `error`
      "api_error",          \* status 200, a JSON body with the key `error`
      "invalid_json",       \* status 200, r.json() raises ValueError
      "rate_limited",       \* status 429
      "failed_status",      \* any other status
      "request_exception" } \* requests.RequestException, the timeout included

\* the value of `attempt` in the next iteration of `for attempt in range(1, MAX_RETRIES + 1)`
NextAttempt_retries_rate_limit(attempt, response) ==
    IF response = "rate_limited" THEN attempt ELSE attempt + 1

NextAttempt(attempt, response) == attempt + 1

\* the seconds slept in the iteration `attempt` that met `response`
SleepAfter(attempt, response) ==
    CASE response \in {"ok", "api_error"} -> 0
      [] response = "rate_limited" -> RETRY_DELAY * attempt
      [] OTHER -> IF attempt < MAX_RETRIES THEN RETRY_DELAY ELSE 0

InitPage ==
    /\ InitSync
    /\ dv = NoDivide /\ dp = NoDup /\ wb = NoWrite /\ rp = NoResolve /\ ba = NoBatch
    /\ fn = [pc |-> "request", attempt |-> 1, requests |-> 0, responses |-> <<>>,
             slept |-> 0, result |-> "pending"]

\* one iteration of the loop: the request, then return, continue or fall to the sleep
RequestPage(response) ==
    /\ fn.pc = "request"
    /\ fn.attempt <= MAX_RETRIES
    /\ fn' = [fn EXCEPT
                !.requests = @ + 1,
                !.responses = Append(@, response),
                !.slept = @ + SleepAfter(fn.attempt, response),
                !.attempt = IF response \in {"ok", "api_error"}
                            THEN @ ELSE NextAttempt(@, response),
                !.pc = IF response \in {"ok", "api_error"} THEN "returned" ELSE "request",
                !.result = CASE response = "ok" -> "data"
                             [] response = "api_error" -> "None"
                             [] OTHER -> "pending"]
    /\ UNCHANGED <<syncVars, dv, dp, wb, rp, ba>>

\* the loop is exhausted: "Skipping page after 5 failed attempts", return None
SkipPage ==
    /\ fn.pc = "request"
    /\ fn.attempt > MAX_RETRIES
    /\ fn' = [fn EXCEPT !.pc = "returned", !.result = "None"]
    /\ UNCHANGED <<syncVars, dv, dp, wb, rp, ba>>

NextPage ==
    \/ \E response \in PageResponses : RequestPage(response)
    \/ SkipPage

SpecPage == InitPage /\ [][NextPage]_vars

-----------------------------------------------------------------------------
(* fetch_and_update_cache over a growing Last.fm history, page by page *)

\* timestamps of the Last.fm history: one scrobble a second, 1..MaxHistory
MaxHistory == 5

\* runs of fetch_and_update_cache
MaxFetchRuns == 2

\* `limit=200` of user.getRecentTracks, scaled down
PageLimit == 2

SourceScrobble(timestamp) ==
    [artist |-> s_ab, album |-> <<>>, track |-> s_abc, timestamp |-> timestamp,
     loved |-> FALSE]

\* user.getRecentTracks&from=..&to=..: the timestamps of the window, newest first;
\* whether `from` itself belongs to the window is the service's choice
RecentTracks(source, from_timestamp, now, inclusive) ==
    LET window == { t \in 1..source :
                      /\ t <= now
                      /\ IF inclusive THEN t >= from_timestamp ELSE t > from_timestamp }
    IN  [i \in 1..Cardinality(window) |->
            CHOOSE t \in window : Cardinality({ u \in window : u > t }) = i - 1]

\* recenttracks.@attr.totalPages
TotalPages(recent) == (Len(recent) + PageLimit - 1) \div PageLimit

\* recenttracks.track of page `page`
PageOf(recent, page) ==
    SubSeq(recent, (page - 1) * PageLimit + 1,
           IF page * PageLimit < Len(recent) THEN page * PageLimit ELSE Len(recent))

\* the `for t in recent` loop: the scrobbles appended before the break, newest first
RECURSIVE Appended(_, _)
Appended(recent, from_timestamp) ==
    IF recent = <<>> THEN <<>>
    ELSE IF from_timestamp > 0 /\ Head(recent) <= from_timestamp THEN <<>>
    ELSE <<SourceScrobble(Head(recent))>> \o Appended(Tail(recent), from_timestamp)

\* stop_fetching after the `for t in recent` loop
Stops(recent, from_timestamp) ==
    from_timestamp > 0 /\ \E i \in DOMAIN recent : recent[i] <= from_timestamp

\* ScrobbleCache.add_scrobbles over the list, row by row
RECURSIVE AddAll(_, _)
AddAll(tbl, l) ==
    IF l = <<>> THEN tbl ELSE AddAll(add_scrobbles(tbl, Head(l)), Tail(l))

\* the page number after an iteration in which fetch_lastfm_page returned None
AfterFailedPage(page) == page + 1

NoFetch ==
    [pc |-> "idle", from_timestamp |-> 0, now |-> 0, page |-> 1, total_pages |-> 1,
     scrobbles |-> <<>>, stop_fetching |-> FALSE, failed |-> {}]

InitFetch ==
    /\ InitSync
    /\ dv = NoDivide /\ dp = NoDup /\ wb = NoWrite /\ rp = NoResolve /\ ba = NoBatch
    /\ \E inclusive \in BOOLEAN :
          fn = [NoFetch EXCEPT !.pc = "idle"] @@
               [source |-> 0, inclusive |-> inclusive, runs |-> 0]

fetchFrame ==
    <<ALBUM_MATCHING_MODE, aggregated_scrobbles, matchVars, dv, dp, wb, rp, ba>>

\* the user listens to one more track: Last.fm records a scrobble
Listen ==
    /\ fn.pc = "idle"
    /\ fn.source < MaxHistory
    /\ fn' = [fn EXCEPT !.source = @ + 1]
    /\ UNCHANGED <<scrobbles, loved_tracks, fetchFrame>>

\* fetch_and_update_cache up to the first iteration of the page loop
StartFetch ==
    /\ fn.pc = "idle"
    /\ fn.runs < MaxFetchRuns
    /\ fn' = [fn EXCEPT !.pc = "fetching",
                        !.from_timestamp = get_latest_scrobble_timestamp(scrobbles),
                        !.now = fn.source,
                        !.page = 1, !.total_pages = 1, !.scrobbles = <<>>,
                        !.stop_fetching = FALSE, !.failed = {},
                        !.runs = @ + 1]
    /\ UNCHANGED <<scrobbles, loved_tracks, fetchFrame>>

\* one iteration of `while page <= total_pages and not stop_fetching`
FetchPage(data) ==
    /\ fn.pc = "fetching"
    /\ fn.page <= fn.total_pages /\ ~fn.stop_fetching
    /\ LET all == RecentTracks(fn.source, fn.from_timestamp, fn.now, fn.inclusive)
           recent == PageOf(all, fn.page)
       IN  fn' = IF data = "None"
                 THEN [fn EXCEPT !.page = AfterFailedPage(@),
                                 !.failed = @ \cup {fn.page}]
                 ELSE [fn EXCEPT
                         !.scrobbles = @ \o Appended(recent, fn.from_timestamp),
                         !.total_pages = TotalPages(all),
                         !.stop_fetching = Stops(recent, fn.from_timestamp),
                         !.page = IF Stops(recent, fn.from_timestamp) THEN @ ELSE @ + 1]
    /\ UNCHANGED <<scrobbles, loved_tracks, fetchFrame>>

\* the loop has ended: add_scrobbles, then the loved tracks are refreshed
StoreFetched(loved_tracks_list) ==
    /\ fn.pc = "fetching"
    /\ fn.page > fn.total_pages \/ fn.stop_fetching
    /\ scrobbles' = update_loved_tracks(AddAll(scrobbles, fn.scrobbles), loved_tracks_list)
    /\ loved_tracks' = loved_tracks_list
    /\ fn' = [fn EXCEPT !.pc = "idle"]
    /\ UNCHANGED fetchFrame

NextFetch ==
    \/ Listen
    \/ StartFetch
    \/ \E data \in {"data", "None"} : FetchPage(data)
    \/ \E loved_tracks_list \in LovedLists : StoreFetched(loved_tracks_list)

SpecFetch == InitFetch /\ [][NextFetch]_vars

-----------------------------------------------------------------------------
(* Properties of the match resolver *)

Called == last.id # 0

LastTrack == CHOOSE t \in Range(Tracks) : t.id = last.id

\* the target-side key of the track of the last call, in the mode of that call
LastExactKey ==
    make_key_navidrome(LastTrack.artist, LastTrack.title, LastTrack.album, last.album_aware)

\* the (artist, title) pairs of the candidates the fuzzy matcher returned in the last call
LastCandidates ==
    { <<last.fuzzy_matches[i].lastfm_artist, last.fuzzy_matches[i].lastfm_track>> :
        i \in DOMAIN last.fuzzy_matches }

\* the last call was for a track with a stored FuzzyAcceptance
HadAcceptance == Called /\ last.id \in DOMAIN last.fm_before

\* the source-side (artist, title) key of the acceptance stored before the last call
AcceptedKey ==
    <<normalize(last.fm_before[last.id][1]), normalize(last.fm_before[last.id][2])>>

AcceptedStillAggregated ==
    \E k \in DOMAIN aggregated_scrobbles : <<k[1], k[2]>> = AcceptedKey

\* C1: once a FuzzyAcceptance is stored for a track, every later resolver call for it in
\* which the accepted (artist, title) is still aggregated returns that identity without
\* a prompt, in every album matching mode.
C1_AcceptedIsReturnedInEveryMode ==
    (HadAcceptance /\ AcceptedStillAggregated)
        => /\ last.result # None
           /\ <<last.result[1], last.result[2]>> = AcceptedKey
           /\ ~last.prompted

\* C2: when the target-side key of a track is in the aggregated map, the resolver returns
\* without invoking the fuzzy matcher, without a prompt and without writing a
\* FuzzyAcceptance or a SkipRecord.
C2_ExactMatchPriority ==
    (Called /\ LastExactKey \in DOMAIN aggregated_scrobbles)
        => /\ ~last.fuzzy_invoked
           /\ ~last.prompted
           /\ fuzzy_match_mappings = last.fm_before
           /\ skipped_tracks = last.sk_before

C2_Witness ==
    /\ Called
    /\ LastExactKey \in DOMAIN aggregated_scrobbles
    /\ ~last.album_aware
    /\ last.enable_fuzzy
    /\ last.id \notin DOMAIN last.fm_before
    /\ last.result = LastExactKey
    /\ Cardinality(DOMAIN aggregated_scrobbles) >= 2

\* C3: for a track whose target-side key is in the aggregated map the resolver returns the
\* identity stored under that key, also when a stored FuzzyAcceptance names another
\* identity of the map.
C3_ExactBeforeCache ==
    (Called /\ LastExactKey \in DOMAIN aggregated_scrobbles) => last.result = LastExactKey

\* the last call ran the fuzzy matcher for a track with a stored SkipRecord and the
\* matcher returned candidates
SkippedWithCandidates ==
    /\ Called
    /\ last.id \in DOMAIN last.sk_before
    /\ last.fuzzy_invoked
    /\ last.fuzzy_matches # <<>>

RejectedBefore == Range(last.sk_before[last.id])

\* C4: for a track with a SkipRecord and a non-empty candidate list, the human is
\* prompted again iff some current candidate is absent from the rejected set of the
\* record; when none is new, no match is returned, nothing is prompted and the
\* SkipRecord stays as it was.
C4_RepromptIffNewCandidate ==
    SkippedWithCandidates
        => /\ last.prompted <=> (\E c \in LastCandidates : c \notin RejectedBefore)
           /\ ~last.prompted
                 => /\ last.result = None
                    /\ skipped_tracks = last.sk_before
                    /\ fuzzy_match_mappings = last.fm_before

C4_Witness ==
    /\ SkippedWithCandidates
    /\ last.prompted
    /\ RejectedBefore \subseteq LastCandidates
    /\ RejectedBefore # LastCandidates

C6_DecisionIsRecorded ==
    (Called /\ last.prompted)
        => IF last.choice # 0
           THEN /\ last.id \in DOMAIN fuzzy_match_mappings
                /\ fuzzy_match_mappings[last.id] =
                      <<last.fuzzy_matches[last.choice].lastfm_artist,
                        last.fuzzy_matches[last.choice].lastfm_track>>
                /\ last.result = last.fuzzy_matches[last.choice].key
                /\ aggregated_scrobbles[last.result].artist_orig =
                      fuzzy_match_mappings[last.id][1]
                /\ aggregated_scrobbles[last.result].track_orig =
                      fuzzy_match_mappings[last.id][2]
           ELSE /\ last.id \in DOMAIN skipped_tracks
                /\ Range(skipped_tracks[last.id]) = LastCandidates
                /\ last.result = None

C6_Witness ==
    /\ Called
    /\ last.prompted
    /\ last.choice = 0
    /\ Cardinality(LastCandidates) >= 2
    /\ last.id \in DOMAIN last.sk_before

\* the run that just ended repeats the previous run: same aggregated map, same setting
SecondRunDone ==
    /\ pc = "done"
    /\ prev.valid
    /\ prev.aggregated_scrobbles = aggregated_scrobbles
    /\ prev.enable_fuzzy = ENABLE_FUZZY_MATCHING

\* C7: a second run over the same tracks and the same aggregated map, starting from the
\* decision store the first run left, gives every track the outcome of the first run and
\* prompts nobody.
C7_CacheIdempotence ==
    SecondRunDone => (track_matches = prev.track_matches /\ prompts = 0)

C7_Witness ==
    /\ SecondRunDone
    /\ ENABLE_FUZZY_MATCHING
    /\ ALBUM_MATCHING_MODE # "album_aware"
    /\ 1 \in DOMAIN fuzzy_match_mappings
    /\ track_matches[1] # None
    /\ track_matches[2] # None

\* some aggregated identity has the artist and title of the last track and an album
LastHasAlbumSpecific ==
    \E k \in DOMAIN aggregated_scrobbles :
        /\ Len(k) = 3
        /\ k[1] = normalize(first_artist(LastTrack.artist))
        /\ k[2] = normalize(LastTrack.title)
        /\ k[3] # <<>>

\* C8: in a run in album-aware mode, a track whose (artist, title, album) key misses
\* resolves to no match when the aggregated map holds an identity with the same artist
\* and title and a non-empty album.
C8_NoFallbackBesideAlbumSpecific ==
    (Called /\ last.album_aware /\ LastExactKey \notin DOMAIN aggregated_scrobbles
        /\ LastHasAlbumSpecific)
        => last.result = None

-----------------------------------------------------------------------------
(* Properties of the album-aware divide *)

RECURSIVE SumOver(_, _)
SumOver(f, S) ==
    IF S = {} THEN 0
    ELSE LET x == CHOOSE y \in S : TRUE
         IN  f[x] + SumOver(f, S \ {x})

\* some version of the group carries the (trimmed) source album, case-insensitively
DivideAlbumMatched ==
    /\ strip(dv.album_orig) # <<>>
    /\ \E i \in DOMAIN dv.duplicates :
          lower(strip(dv.duplicates[i].album)) = lower(strip(dv.album_orig))

\* C9: for every group of N >= 1 versions and every total T >= 0 the counts assigned by
\* calculate_album_divide (and by process_album_divide) sum to T, in the equal-division
\* branches and in the exact-album-match branch.
C9_DivideConservation ==
    dv.called
        => /\ DOMAIN dv.distribution = { dv.duplicates[i].id : i \in DOMAIN dv.duplicates }
           /\ SumOver(dv.distribution, DOMAIN dv.distribution) = dv.total
           /\ SumOver(dv.processed, DOMAIN dv.processed) = dv.total

C9_Witness ==
    /\ dv.called
    /\ ~DivideAlbumMatched
    /\ Len(dv.duplicates) = 3
    /\ dv.total % 3 = 2
    /\ SumOver(dv.distribution, DOMAIN dv.distribution) = dv.total

\* C10: when the source has no album or no version's album matches it, the version at
\* 0-based input position i gets floor(T/N) + 1 if i < T mod N and floor(T/N) otherwise;
\* T = 7 over the versions [id 1, id 2] gives {1: 4, 2: 3}.
C10_RemainderToFirst ==
    (dv.called /\ ~DivideAlbumMatched)
        => \A i \in DOMAIN dv.duplicates :
              dv.distribution[dv.duplicates[i].id] =
                  (dv.total \div Len(dv.duplicates))
                    + (IF i - 1 < dv.total % Len(dv.duplicates) THEN 1 ELSE 0)

C10_Witness ==
    /\ dv.called
    /\ ~DivideAlbumMatched
    /\ dv.total = 7
    /\ Len(dv.duplicates) = 2
    /\ dv.duplicates[1].id = 1
    /\ dv.duplicates[2].id = 2
    /\ dv.distribution = (1 :> 4 @@ 2 :> 3)

\* positions of the versions whose album, as stored, is the trimmed source album up to case
StoredAlbumMatches ==
    { i \in DOMAIN dv.duplicates :
        lower(dv.duplicates[i].album) = lower(strip(dv.album_orig)) }

\* positions of the versions whose trimmed album is the trimmed source album up to case
TrimmedAlbumMatches ==
    { i \in DOMAIN dv.duplicates :
        lower(strip(dv.duplicates[i].album)) = lower(strip(dv.album_orig)) }

\* C11 as stated: when the trimmed source album is, up to case, the album of a version of
\* the group, the first such version in input order gets the full count T and every
\* other version gets 0.
C11_StoredAlbumMatchTakesAll ==
    (dv.called /\ strip(dv.album_orig) # <<>> /\ StoredAlbumMatches # {})
        => \A i \in DOMAIN dv.duplicates :
              dv.distribution[dv.duplicates[i].id] =
                  (IF i = Min(StoredAlbumMatches) THEN dv.total ELSE 0)

\* C11 amended: the albums of the versions are trimmed before the comparison too; the
\* first version in input order whose trimmed album is the trimmed source album up to
\* case gets the full count T and every other version gets 0, in both divide functions.
C11_TrimmedAlbumMatchTakesAll ==
    (dv.called /\ strip(dv.album_orig) # <<>> /\ TrimmedAlbumMatches # {})
        => \A i \in DOMAIN dv.duplicates :
              /\ dv.distribution[dv.duplicates[i].id] =
                    (IF i = Min(TrimmedAlbumMatches) THEN dv.total ELSE 0)
              /\ dv.processed[dv.duplicates[i].id] =
                    (IF i = Min(TrimmedAlbumMatches) THEN dv.total ELSE 0)

C11_Witness ==
    /\ dv.called
    /\ dv.album_orig = s_x
    /\ Len(dv.duplicates) = 3
    /\ dv.duplicates[1].album = s_y
    /\ dv.duplicates[2].album = s_X_sp
    /\ dv.duplicates[3].album = s_x
    /\ dv.total = 5
    /\ dv.distribution[dv.duplicates[2].id] = 5
    /\ dv.distribution[dv.duplicates[3].id] = 0

-----------------------------------------------------------------------------
(* Properties of the duplicate handling of Phase 2 *)

\* the group was handled and holds N > 1 versions
HandledGroup == dp.handled /\ Len(dp.duplicates) > 1

\* the DuplicateSelection stored for the identity of the group before the last pass
StoredBefore == get_duplicate_selection(dp.store_before, s_ab, s_ab)

GroupIds == Range(IdsOf(dp.duplicates))

\* C12: under the policy `ask`, when a DuplicateSelection is stored for the identity and
\* some stored id is no longer in the duplicate group, the human is prompted again; the
\* selection is replayed without a prompt only if every stored id is still in the group.
C12_ReplayOnlyIfAllStoredPresent ==
    (HandledGroup /\ dp.DUPLICATE_RESOLUTION = "ask" /\ StoredBefore # <<>>)
        => (~dp.prompted => Range(StoredBefore) \subseteq GroupIds)

\* C13: for a group of N > 1 versions under `all`, `first` or `skip`, the versions compared
\* are all of them, the first in input order, or none; each is compared with the full
\* source count, nobody is prompted, and differences holds no other version.
C13_NonInteractivePolicies ==
    (HandledGroup /\ dp.DUPLICATE_RESOLUTION \in {"all", "first", "skip"})
        => /\ ~dp.prompted
           /\ dp.duplicate_selections = dp.store_before
           /\ [i \in DOMAIN dp.compared |-> dp.compared[i].id] =
                 (CASE dp.DUPLICATE_RESOLUTION = "all" -> IdsOf(dp.duplicates)
                    [] dp.DUPLICATE_RESOLUTION = "first" -> <<dp.duplicates[1].id>>
                    [] OTHER -> <<>>)
           /\ \A i \in DOMAIN dp.compared : dp.compared[i].lastfm = dp.total
           /\ \A i \in DOMAIN dp.differences :
                 /\ dp.differences[i].lastfm = dp.total
                 /\ \E j \in DOMAIN dp.compared : dp.compared[j].id = dp.differences[i].id

C13_Witness ==
    /\ HandledGroup
    /\ dp.DUPLICATE_RESOLUTION = "first"
    /\ ALBUM_MATCHING_MODE = "album_aware"
    /\ Len(dp.duplicates) = 3
    /\ dp.duplicates[1].id = 2
    /\ dp.total = MaxTotal
    /\ Len(dp.differences) = 1
    /\ dp.differences[1].id = 2

\* C14: under the policy `ask`, a group of N > 1 versions without a stored selection leads
\* to a prompt, in every album matching mode.
C14_AskAlwaysPrompts ==
    (HandledGroup /\ dp.DUPLICATE_RESOLUTION = "ask" /\ StoredBefore = <<>>)
        => dp.prompted

-----------------------------------------------------------------------------
(* Properties of resolve_playcount *)

\* C15: for every policy other than increment and all counts with source > target,
\* resolve_playcount returns the source count with changed = true and asks nobody.
C15_SourceHigherIsAdopted ==
    (rp.called /\ rp.mode # "increment" /\ rp.lastfm > rp.nav)
        => /\ rp.new_count = rp.lastfm
           /\ rp.changed
           /\ ~rp.prompted

C15_Witness ==
    /\ rp.called
    /\ rp.mode = "navidrome"
    /\ rp.nav = 1
    /\ rp.lastfm = MaxCount
    /\ rp.new_count = MaxCount

\* the answer as resolve_playcount compares it: trimmed and lower-cased
KeepsNavidrome == lower(strip(rp.answer)) \in {<<>>, <<"n">>}

\* C16: for all counts with target > source: `navidrome` and `higher` keep the target
\* count with changed = false; `lastfm` returns the source count with changed = true;
\* `ask` prompts, and returns the target count (changed = false) on an empty or 'n'
\* answer and the source count (changed = true) on any other answer.
C16_TargetHigherByPolicy ==
    (rp.called /\ rp.nav > rp.lastfm)
        => CASE rp.mode \in {"navidrome", "higher"} ->
                   rp.new_count = rp.nav /\ ~rp.changed /\ ~rp.prompted
             [] rp.mode = "lastfm" ->
                   rp.new_count = rp.lastfm /\ rp.changed /\ ~rp.prompted
             [] rp.mode = "ask" ->
                   /\ rp.prompted
                   /\ IF KeepsNavidrome
                      THEN rp.new_count = rp.nav /\ ~rp.changed
                      ELSE rp.new_count = rp.lastfm /\ rp.changed
             [] OTHER -> TRUE

C16_Witness ==
    /\ rp.called
    /\ rp.mode = "ask"
    /\ rp.nav = MaxCount
    /\ rp.lastfm = 1
    /\ rp.answer = <<"l">>
    /\ rp.new_count = 1
    /\ rp.changed

\* C17: under `increment`, for all counts, resolve_playcount returns target + source,
\* changed = true whenever source > 0, and conflict = true exactly when the two differ.
C17_IncrementAdds ==
    (rp.called /\ rp.mode = "increment")
        => /\ rp.new_count = rp.nav + rp.lastfm
           /\ rp.lastfm > 0 => rp.changed
           /\ rp.conflict <=> (rp.nav # rp.lastfm)
           /\ ~rp.prompted

C17_Witness ==
    /\ rp.called
    /\ rp.mode = "increment"
    /\ rp.nav = 2
    /\ rp.lastfm = 2
    /\ rp.new_count = 4
    /\ rp.changed
    /\ ~rp.conflict

-----------------------------------------------------------------------------
(* Properties of the write-back *)

\* the counts and the star of track 1 before the comparison and now
Before == get_annotation_playcount_starred(wb.before, 1)

After == get_annotation_playcount_starred(wb.annotation, 1)

Reconciled == wb.pc \in {"in_sync", "dry_run", "written"}

\* C18: for a matched version whose play count equals the source count, reconciliation
\* under any conflict policy leaves the stored play count as it was; only the star may
\* change.
C18_EqualCountsNoNumericChange ==
    (Reconciled /\ Before.play_count = wb.lastfm)
        => After.play_count = Before.play_count

\* C19: after every write-back of a version, under every count policy, the star equals
\* (the star before the write) or (the source identity is loved).
C19_StarIsOrOfLoved ==
    wb.pc = "written" => (After.starred <=> (Before.starred \/ wb.loved))

C19_Witness ==
    /\ wb.pc = "written"
    /\ wb.PLAYCOUNT_CONFLICT_RESOLUTION = "navidrome"
    /\ 1 \in DOMAIN wb.before
    /\ Before.starred
    /\ ~wb.loved
    /\ Before.play_count > wb.lastfm
    /\ After.starred

-----------------------------------------------------------------------------
(* Properties of the loved flag on the source side *)

\* the rows of the cache that contribute to the aggregated identity k
Contributing(tbl, k) ==
    { i \in DOMAIN tbl :
        make_key_lastfm(tbl[i].artist, tbl[i].track, tbl[i].album, Len(k) = 3) = k }

\* C20: after every step of the cache or the aggregator, an aggregated identity is loved
\* iff one of its contributing scrobbles is loved, and no step (add_scrobbles,
\* update_loved_tracks, mark_scrobbles_synced, reset_sync_status, aggregation) turns the
\* loved flag of a cached scrobble or of an aggregated identity from true to false.
C20_LovedMonotonicity ==
    [][/\ \A i \in DOMAIN scrobbles : scrobbles[i].loved => scrobbles'[i].loved
       /\ \A k \in DOMAIN aggregated_scrobbles \cap DOMAIN aggregated_scrobbles' :
             aggregated_scrobbles[k].loved => aggregated_scrobbles'[k].loved
       /\ \A k \in DOMAIN aggregated_scrobbles' :
             aggregated_scrobbles'[k].loved
                 <=> \E i \in Contributing(scrobbles', k) : scrobbles'[i].loved]_vars

C20_Witness ==
    /\ Len(scrobbles) = 2
    /\ scrobbles[1].loved
    /\ ~scrobbles[2].loved
    /\ scrobbles[1].synced
    /\ loved_tracks = <<>>
    /\ \E k \in DOMAIN aggregated_scrobbles :
          aggregated_scrobbles[k].loved /\ Len(aggregated_scrobbles[k].timestamps) = 2

-----------------------------------------------------------------------------
(* Properties of the keys *)

\* s holds a separator between blanks
HasSeparator(s) ==
    \E i \in 1..Len(s), t \in Separators :
        /\ i > 1 /\ s[i - 1] = " "
        /\ i + Len(t) <= Len(s)
        /\ lower(SubSeq(s, i, i + Len(t) - 1)) = t
        /\ s[i + Len(t)] = " "

\* s is blanks, then a separator, then a blank, then anything
StartsWithSeparator(s) ==
    \E n \in 1..Len(s), t \in Separators :
        /\ \A k \in 1..n : s[k] = " "
        /\ n + Len(t) + 1 <= Len(s)
        /\ lower(SubSeq(s, n + 1, n + Len(t))) = t
        /\ s[n + Len(t) + 1] = " "

Whitelisted(artist) ==
    \E w \in FIRST_ARTIST_WHITELIST : lower(strip(w)) = lower(strip(artist))

\* k is the first contributor of the trimmed, lower-cased artist string full
FirstContributor(k, full) ==
    /\ Len(k) <= Len(full)
    /\ SubSeq(full, 1, Len(k)) = k
    /\ ~HasSeparator(k)
    /\ k = <<>> \/ k[Len(k)] # " "
    /\ k = full \/ StartsWithSeparator(SubSeq(full, Len(k) + 1, Len(full)))

\* C21: the source-side key always keeps the whole trimmed, lower-cased artist; the
\* target-side key of an artist that is not whitelisted is its first contributor (the
\* part before the first separator); "A feat. B" gives "a" on the target side and
\* "a feat. b" on the source side; title and album components are the same on both sides.
C21_KeyAsymmetry ==
    fn.called =>
        /\ fn.lastfm[1] = lower(strip(fn.artist))
        /\ (SCROBBLED_FIRSTARTISTONLY /\ ~Whitelisted(fn.artist))
              => FirstContributor(fn.navidrome[1], lower(strip(fn.artist)))
        /\ fn.artist = s_A_feat_B =>
              /\ fn.navidrome[1] = <<"a">>
              /\ fn.lastfm[1] = <<"a", " ", "f", "e", "a", "t", ".", " ", "b">>
        /\ Tail(fn.lastfm) = Tail(fn.navidrome)

C21_Witness ==
    /\ fn.called
    /\ fn.artist = s_A_feat_B
    /\ fn.navidrome[1] = <<"a">>
    /\ fn.lastfm[1] # fn.navidrome[1]
    /\ Len(fn.lastfm) = 3

-----------------------------------------------------------------------------
(* Properties of the aggregator *)

EventKey(s) == make_key_lastfm(s.artist, s.track, s.album, fn.album_aware)

\* the first event of list l whose source-side key is k
FirstSeen(l, k) == l[Min({ i \in DOMAIN l : EventKey(l[i]) = k })]

DisplayOf(info) == <<info.artist_orig, info.track_orig, info.album_orig>>

\* C22: aggregating an event list and aggregating any permutation of it give the same keys
\* and, per key, the same set of timestamps and the same loved flag; the display strings of
\* a key are those of the first event of the aggregated list that has the key.
C22_AggregationDeterminism ==
    fn.called =>
        /\ DOMAIN fn.aggregated = DOMAIN fn.aggregated_permuted
        /\ \A k \in DOMAIN fn.aggregated :
              /\ Range(fn.aggregated[k].timestamps)
                    = Range(fn.aggregated_permuted[k].timestamps)
              /\ fn.aggregated[k].loved = fn.aggregated_permuted[k].loved
              /\ LET s == FirstSeen(fn.scrobbles, k)
                 IN  DisplayOf(fn.aggregated[k]) = <<s.artist, s.track, s.album>>
              /\ LET s == FirstSeen(fn.permuted, k)
                 IN  DisplayOf(fn.aggregated_permuted[k]) = <<s.artist, s.track, s.album>>

C22_Witness ==
    /\ fn.called
    /\ fn.permuted # fn.scrobbles
    /\ \E k \in DOMAIN fn.aggregated :
          /\ Len(fn.aggregated[k].timestamps) = 2
          /\ fn.aggregated[k].timestamps # fn.aggregated_permuted[k].timestamps
          /\ fn.aggregated[k].loved
          /\ DisplayOf(fn.aggregated[k]) # DisplayOf(fn.aggregated_permuted[k])

\* play count of every identity of an aggregated map
PlayCounts(agg) == [k \in DOMAIN agg |-> Len(agg[k].timestamps)]

Malformed(artist, title) == normalize(artist) = <<>> \/ normalize(title) = <<>>

\* library tracks without an artist, without a title
MalformedTracks == { Track(3, <<>>, s_ab, <<>>), Track(4, s_ab, <<" ">>, <<>>) }

\* the key a library track is resolved to against the aggregated map, without fuzzy
\* matching and with an empty decision cache
ResolvedTo(t) ==
    get_lastfm_match_for_navidrome_track(t, fn.aggregated,
        KeyOrder(fn.scrobbles, fn.album_aware), <<>>, <<>>, FUZZY_THRESHOLD, FALSE,
        fn.album_aware, NoKeys, 0).result

\* C27: an event whose artist or title is empty after normalization contributes to no
\* aggregated identity, and a library track whose artist or title is empty after
\* normalization is resolved to no identity.
C27_MalformedIsSkipped ==
    fn.called =>
        /\ \A i \in DOMAIN fn.scrobbles :
              Malformed(fn.scrobbles[i].artist, fn.scrobbles[i].track)
                  => EventKey(fn.scrobbles[i]) \notin DOMAIN fn.aggregated
        /\ \A t \in MalformedTracks : ResolvedTo(t) = None

-----------------------------------------------------------------------------
(* Properties of the fuzzy matcher *)

ArtistScore(k) ==
    fuzz_ratio(normalize_for_fuzzy_match(fn.navidrome_artist),
               normalize_for_fuzzy_match(fn.aggregated[k].artist_orig))

TitleScore(k) ==
    fuzz_ratio(normalize_for_fuzzy_match(fn.navidrome_track),
               normalize_for_fuzzy_match(fn.aggregated[k].track_orig))

\* 0.7 * title_score + 0.3 * artist_score >= threshold, in tenths
CombinedReaches(k, threshold) == 7 * TitleScore(k) + 3 * ArtistScore(k) >= 10 * threshold

Kept == { k \in DOMAIN fn.aggregated : CombinedReaches(k, fn.threshold) /\ ArtistScore(k) >= 70 }

\* C24: the list returned by find_fuzzy_matches_for_navidrome_track holds, once each,
\* exactly the aggregated identities whose combined score 0.7 * title_score +
\* 0.3 * artist_score reaches the threshold and whose artist_score is at least 70, and
\* its combined scores never increase along the list.
C24_FuzzyMatchesKeptAndSorted ==
    fn.called =>
        /\ { fn.matches[i].key : i \in DOMAIN fn.matches } = Kept
        /\ Len(fn.matches) = Cardinality(Kept)
        /\ \A i \in DOMAIN fn.matches :
              /\ fn.matches[i].combined_score
                    = 7 * TitleScore(fn.matches[i].key) + 3 * ArtistScore(fn.matches[i].key)
              /\ \A j \in DOMAIN fn.matches :
                    i < j => fn.matches[i].combined_score >= fn.matches[j].combined_score

\* three identities: the first seen is rejected by the artist floor alone, the second is
\* kept with a lower score than the third, so the sort reverses them
C24_Witness ==
    /\ fn.called
    /\ Cardinality(DOMAIN fn.aggregated) = 3
    /\ Len(fn.matches) = 2
    /\ fn.matches[1].combined_score > fn.matches[2].combined_score
    /\ fn.matches[1].key = make_key_lastfm(fn.scrobbles[3].artist, fn.scrobbles[3].track,
                                           fn.scrobbles[3].album, fn.album_aware)
    /\ \E k \in DOMAIN fn.aggregated :
          CombinedReaches(k, fn.threshold) /\ ArtistScore(k) < 70

-----------------------------------------------------------------------------
(* Properties of the write-back of a batch *)

\* the cached scrobbles of the identity a difference was computed from
ScrobblesOf(d) ==
    { i \in DOMAIN scrobbles :
        make_key_lastfm(scrobbles[i].artist, scrobbles[i].track, <<>>, FALSE)
            = make_key_lastfm(d.lastfm_artist, d.lastfm_track, <<>>, FALSE) }

Written(d) == d.id \in DOMAIN ba.written

\* C25: in every state reached by an abrupt interrupt of apply_updates, an item whose
\* annotation has been written has all scrobbles of its identity marked synced in the
\* cache, and every written item still holds the values that were committed for it.
C25_WriteBackIsOneUnit ==
    ba.pc = "crashed" =>
        \A i \in DOMAIN ba.differences :
            Written(ba.differences[i]) =>
                /\ \A r \in ScrobblesOf(ba.differences[i]) : scrobbles[r].synced
                /\ ba.annotation[ba.differences[i].id] = ba.written[ba.differences[i].id]

\* C26: when a statement of the write-back of one item raises, every other item of the
\* batch is still written.
C26_ItemErrorsAreContained ==
    ba.pc = "failed" =>
        \A i \in DOMAIN ba.differences : i # ba.i => Written(ba.differences[i])

-----------------------------------------------------------------------------
(* Properties of stale decisions, configuration and the missing report *)

\* the acceptance stored before the last call names a key that is not aggregated
StaleAcceptance == HadAcceptance /\ AcceptedKey \notin DOMAIN aggregated_scrobbles

\* C28: when the FuzzyAcceptance stored for a track names an identity that is not in the
\* aggregated map, the resolver call does not return that identity and, when the call
\* ends, the store holds no acceptance for the track or another one than before.
C28_StaleAcceptanceIsRefreshed ==
    StaleAcceptance =>
        /\ last.result # AcceptedKey
        /\ \/ last.id \notin DOMAIN fuzzy_match_mappings
           \/ fuzzy_match_mappings[last.id] # last.fm_before[last.id]

\* the .env file holds a policy string that is none of the documented ones
UnrecognizedPolicy ==
    /\ ba.pc # "none"
    /\ \/ LowerEnv(ba.env_conflict) \notin ConflictModes
       \/ LowerEnv(ba.env_duplicate) \notin DuplicatePolicies

ResolvedToKey(k) == \E i \in TrackIds : track_matches[i] = k

\* C30: when a run has matched every track, an aggregated identity is in the missing
\* report iff no track was resolved to it in that run.
C30_MissingIffUnresolved ==
    pc = "done" =>
        \A k \in DOMAIN aggregated_scrobbles :
            k \in write_missing_reports <=> ~ResolvedToKey(k)

-----------------------------------------------------------------------------
(* Properties of the resolver when fuzzy matching is off or the mode is album-aware *)

\* the last call changed neither decision store
StoresUntouched ==
    fuzzy_match_mappings = last.fm_before /\ skipped_tracks = last.sk_before

\* C31: in a resolver call with ENABLE_FUZZY_MATCHING false, a track is matched only to
\* the identity under its own target-side key; a stored acceptance is not applied, nobody
\* is prompted and no decision record is written.
C31_FuzzyDisabledOnlyExact ==
    (Called /\ ~last.enable_fuzzy) =>
        /\ last.result # None => last.result = LastExactKey
        /\ ~last.prompted
        /\ StoresUntouched

\* the candidates the fuzzy matcher would return for the track of the last call
LastWouldBeCandidates ==
    find_fuzzy_matches_for_navidrome_track(LastTrack.artist, LastTrack.title,
        aggregated_scrobbles,
        KeyOrder(get_all_scrobbles(scrobbles), last.album_aware), FUZZY_THRESHOLD)

\* C37: a resolver call in album-aware mode does not invoke the fuzzy matcher, does not
\* prompt, and leaves the FuzzyAcceptance and SkipRecord stores as they were.
C37_AlbumAwareNeverFuzzy ==
    (Called /\ last.album_aware) =>
        /\ ~last.fuzzy_invoked
        /\ ~last.prompted
        /\ StoresUntouched

\* an album-aware call with fuzzy matching on, no match, and candidates above the gates
C37_Witness ==
    /\ Called
    /\ last.album_aware
    /\ last.enable_fuzzy
    /\ last.result = None
    /\ LastWouldBeCandidates # <<>>
    /\ ~last.fuzzy_invoked
    /\ skipped_tracks # <<>>

-----------------------------------------------------------------------------
(* Properties of a repeated run and of a declined confirmation *)

NonInteractive == {"navidrome", "higher", "lastfm", "increment"}

\* the run in progress is the second, and the first one applied its updates
SecondAfterApplied ==
    /\ ba.pc # "none"
    /\ ba.run = 2
    /\ ba.first_end \in {"done", "in_sync"}

\* C32: in a second full run over the same scrobbles, the same library and the same
\* non-interactive conflict policy, started after the first run applied its updates, every
\* play count of the library stays what the first run left.
C32_SyncIdempotence ==
    (SecondAfterApplied /\ ba.PLAYCOUNT_CONFLICT_RESOLUTION \in NonInteractive) =>
        \A id \in TrackIds : ba.annotation[id].play_count = ba.first[id].play_count

\* what a declined confirmation must leave alone
DryRunFrame ==
    /\ ba'.annotation = ba.annotation
    /\ ba'.written = ba.written
    /\ scrobbles' = scrobbles
    /\ ba'.last_sync_time = ba.last_sync_time
    /\ ba'.recalculated = ba.recalculated

\* C38: the step in which the human declines the confirmation of apply_updates writes no
\* annotation, marks no scrobble synced, does not set last_sync_time and does not
\* recalculate artist or album play counts; nothing of the run follows it.
C38_DryRunChangesNothing ==
    [][/\ (ba.pc = "listed" /\ ba'.pc = "dry_run") => DryRunFrame
       /\ (ba.pc = "dry_run" /\ ba'.run = ba.run) => ba' = ba /\ scrobbles' = scrobbles]_vars

\* a declined confirmation over two differences, in a cache with nothing synced
C38_Witness ==
    /\ ba.pc = "dry_run"
    /\ Len(ba.differences) = 2
    /\ ba.written = <<>>
    /\ ba.last_sync_time = 0
    /\ ba.recalculated = <<>>
    /\ \A i \in DOMAIN scrobbles : ~scrobbles[i].synced

-----------------------------------------------------------------------------
(* Properties of a replayed duplicate selection *)

\* a pass of Phase 2 that replays the selection the human made in the pass before it,
\* over the same group and the same scrobbles
ReplayStep ==
    /\ HandledGroup
    /\ dp.prompted
    /\ dp.selected_track_ids # <<>>
    /\ dp'.runs = dp.runs + 1
    /\ dp'.duplicates = dp.duplicates
    /\ ~dp'.prompted

\* C33: when the DuplicateSelection the human made is replayed in the next run over the
\* same group and the same source count, the versions compared and the count each is
\* compared with are those of the run of the selection; after 'A' every version is again
\* compared with the full count.
C33_ReplayAssignsSameCounts ==
    [][ReplayStep => dp'.compared = dp.compared]_vars

-----------------------------------------------------------------------------
(* Properties of the decision store across runs *)

\* C34: no track id has both a row in fuzzy_match_mappings and a row in skipped_tracks.
C34_AcceptanceExcludesSkip ==
    DOMAIN fuzzy_match_mappings \cap DOMAIN skipped_tracks = {}

\* a track that had a SkipRecord was prompted for again and accepted
C34_Witness ==
    /\ Called
    /\ last.id \in DOMAIN last.sk_before
    /\ last.prompted
    /\ last.choice # 0
    /\ last.id \in DOMAIN fuzzy_match_mappings
    /\ last.id \notin DOMAIN skipped_tracks

\* the identities rejected for the track of the last call: the keys of the pairs of its
\* SkipRecord. Scrobbles are never deleted and a score does not depend on the casing of a
\* display string, so the candidate identities of a track only grow and the latest
\* record covers every identity shown in an earlier prompt.
RejectedIdentities ==
    { make_key_lastfm(p[1], p[2], None, FALSE) : p \in Range(last.sk_before[last.id]) }

LastCandidateIdentities ==
    { last.fuzzy_matches[i].key : i \in DOMAIN last.fuzzy_matches }

\* C35: a track is not prompted for again in a run in which every current candidate
\* identity was already shown and rejected for it in an earlier prompt.
C35_DontNag ==
    (Called /\ last.prompted /\ last.id \in DOMAIN last.sk_before)
        => ~(LastCandidateIdentities \subseteq RejectedIdentities)

-----------------------------------------------------------------------------
(* Properties of the duplicate groups of a run *)

\* the number of places, over all groups, at which the track with this id stands
Memberships(id) ==
    Cardinality({ <<k, i>> \in UNION { {k} \X DOMAIN fn.potential_duplicates[k] :
                                          k \in DOMAIN fn.potential_duplicates } :
                    fn.potential_duplicates[k][i].id = id })

MatchedIds == { fn.track_matches[i].nav_track.id : i \in DOMAIN fn.track_matches }

NoRepeat(s) == \A i, j \in DOMAIN s : i # j => s[i] # s[j]

\* C36: after compute_differences over a library with unique ids, every matched track
\* stands in exactly one duplicate group and an unmatched one in none, no group was
\* processed twice, and differences holds at most one entry per track id.
C36_OneGroupOneEntry ==
    fn.called =>
        /\ \A i \in DOMAIN fn.tracks :
              Memberships(fn.tracks[i].id)
                  = IF fn.tracks[i].id \in MatchedIds THEN 1 ELSE 0
        /\ NoRepeat(fn.processed_lastfm_keys)
        /\ Range(fn.processed_lastfm_keys) = DOMAIN fn.potential_duplicates
        /\ NoRepeat([i \in DOMAIN fn.differences |-> fn.differences[i].id])

\* three tracks, two groups, one of them with two versions that both get an entry
C36_Witness ==
    /\ fn.called
    /\ Len(fn.track_matches) = 3
    /\ Len(fn.processed_lastfm_keys) = 2
    /\ \E k \in DOMAIN fn.potential_duplicates : Len(fn.potential_duplicates[k]) = 2
    /\ Len(fn.differences) = 3

-----------------------------------------------------------------------------
(* Properties of fetch_lastfm_page *)

PageCall == "pc" \in DOMAIN fn /\ "requests" \in DOMAIN fn

\* the responses that neither return the data nor are an API error
PageFailures == PageResponses \ {"ok", "api_error"}

PageReturned == PageCall /\ fn.pc = "returned"

LastResponse == fn.responses[Len(fn.responses)]

\* C40: fetch_lastfm_page makes at most MAX_RETRIES requests and then has returned
\* or returns in its next step; it returns the data exactly when its last response
\* is the first status 200 with a body that parses and holds no API error, every
\* response before it being a failure; it returns None either straight after an
\* API error or after MAX_RETRIES responses that are all failures or rate limits.
C40_PageFetchBounded ==
    PageCall =>
      /\ fn.requests <= MAX_RETRIES
      /\ fn.requests = Len(fn.responses)
      /\ \A i \in 1..(Len(fn.responses) - 1) : fn.responses[i] \in PageFailures
      /\ (fn.pc = "request") =>
            /\ \A i \in DOMAIN fn.responses : fn.responses[i] \in PageFailures
            /\ (fn.requests = MAX_RETRIES => ENABLED SkipPage)
            /\ (fn.requests < MAX_RETRIES => ENABLED RequestPage("ok"))
      /\ (fn.pc = "returned" /\ fn.result = "data") =>
            /\ fn.requests >= 1
            /\ LastResponse = "ok"
      /\ (fn.pc = "returned" /\ fn.result # "data") =>
            /\ fn.result = "None"
            /\ \/ fn.requests >= 1 /\ LastResponse = "api_error"
               \/ /\ fn.requests = MAX_RETRIES
                  /\ \A i \in DOMAIN fn.responses : fn.responses[i] \in PageFailures

\* None after the fifth attempt, the fifth one rate limited
C40_Witness ==
    /\ PageReturned
    /\ fn.result = "None"
    /\ fn.requests = MAX_RETRIES
    /\ LastResponse = "rate_limited"
    /\ fn.responses[1] = "invalid_json"

-----------------------------------------------------------------------------
(* Properties of the incremental fetch *)

FetchRun == "source" \in DOMAIN fn

Cached(timestamp) == \E i \in DOMAIN scrobbles : scrobbles[i].timestamp = timestamp

\* C39: across runs in which page requests may fail, every Last.fm scrobble whose
\* timestamp is at most the latest cached timestamp is in the cache.
C39_NoHistoryLost ==
    FetchRun =>
        \A t \in 1..fn.source :
            t <= get_latest_scrobble_timestamp(scrobbles) => Cached(t)

\* a run in which no page request failed leaves the cache equal to the history
\* up to the `to` of the request
CompleteWithoutFailure ==
    (FetchRun /\ fn.pc = "idle" /\ fn.runs = 1 /\ fn.failed = {}) =>
        \A t \in 1..fn.now : Cached(t)

=============================================================================
